---- MODULE Spec2Model ----
(***************************************************************************)
(* RBTreeArray: a red-black tree whose nodes live in one contiguous,       *)
(* index-addressed array (RBTreeArrayCXX.h).  The model keeps the header   *)
(* fields of struct RBTree and the node records of the live region, and    *)
(* translates Insert, operator[], Delete, ConditionalDelete,               *)
(* ConditionalDeleteOnce, Search, the ordered cursor and Transform from    *)
(* the source, statement by statement.                                     *)
(*                                                                         *)
(* Index widths are scaled down: the 16-, 32- and 64-bit index types are   *)
(* IndexBits16-, IndexBits32- and IndexBits64-bit unsigned integers, so    *)
(* that MaxNodeCount = 2^bits - 1 (the NIL value) is reachable.            *)
(***************************************************************************)
EXTENDS Integers, Naturals, Sequences, FiniteSets, TLC

VARIABLES tree, map, other, last, refused

vars == <<tree, map, other, last, refused>>

----------------------------------------------------------------------------
(* Bounds of the model *)

MaxKey == 3

MaxValue == 2

IndexBits16 == 2

IndexBits32 == 3

IndexBits64 == 5

Keys == 1..MaxKey

Values == 1..MaxValue

Widths == {16, 32, 64}

----------------------------------------------------------------------------
(* Program constants *)

Red == 0

Black == 1

\* ValueType value;  (the value a fresh operator[] slot is bound to)
DefaultValue == 0

IndexBits(bitLength) ==
    CASE bitLength = 16 -> IndexBits16
      [] bitLength = 32 -> IndexBits32
      [] OTHER -> IndexBits64

MaxNodeCount(bitLength) == 2^IndexBits(bitLength) - 1

\* conversion of an integer to the IndexType of a tree of this width
ToIndexType(bitLength, x) == x % (2^IndexBits(bitLength))

\* uint64_t arithmetic
ToUint64(x) == x % (2^IndexBits64)

Nil(t) == MaxNodeCount(t.bitLength)

----------------------------------------------------------------------------
(* Node access.  t.nodes is a function on the live region 0..nodeCount-1;  *)
(* the reserved slots nodeCount..size-1 hold no meaningful field.          *)

SetFather(t, i, v) == [t EXCEPT !.nodes[i].fatherIndex = ToIndexType(t.bitLength, v)]

SetLeft(t, i, v) == [t EXCEPT !.nodes[i].leftIndex = ToIndexType(t.bitLength, v)]

SetRight(t, i, v) == [t EXCEPT !.nodes[i].rightIndex = ToIndexType(t.bitLength, v)]

SetColor(t, i, c) == [t EXCEPT !.nodes[i].color = c]

SetKeyValue(t, i, k, v) == [t EXCEPT !.nodes[i].key = k, !.nodes[i].value = v]

SetRoot(t, v) == [t EXCEPT !.rootIndex = v]

EmptyNodes == [i \in {} |-> 0]

CreateSize(bitLength, size) ==
    LET s == IF size = 0 THEN 1 ELSE size
    IN  [nodeCount |-> 0,
         rootIndex |-> 0,
         size      |-> ToIndexType(bitLength, s),
         bitLength |-> bitLength,
         nodes     |-> EmptyNodes]

\* NodeAssign: destination[index].xIndex = source[index].xIndex is an
\* integral conversion from the source's index type to the destination's
NodeAssign(destination, source) ==
    [i \in 0..(source.nodeCount - 1) |->
        [fatherIndex |-> ToIndexType(destination.bitLength, source.nodes[i].fatherIndex),
         leftIndex   |-> ToIndexType(destination.bitLength, source.nodes[i].leftIndex),
         rightIndex  |-> ToIndexType(destination.bitLength, source.nodes[i].rightIndex),
         color       |-> source.nodes[i].color,
         key         |-> source.nodes[i].key,
         value       |-> source.nodes[i].value]]

\* Assign that copies the whole header of the source, its bitLength included
AssignWholeHeader(destination, source) ==
    IF source.nodeCount > destination.size
    THEN [tree |-> destination, ret |-> FALSE]
    ELSE [tree |-> [destination EXCEPT !.nodes = NodeAssign(destination, source),
                                       !.nodeCount = source.nodeCount,
                                       !.rootIndex = source.rootIndex,
                                       !.bitLength = source.bitLength],
          ret |-> TRUE]

\* returns [tree, ret]; TreeInformationAssign copies nodeCount and rootIndex
Assign(destination, source) ==
    IF source.nodeCount > destination.size
    THEN [tree |-> destination, ret |-> FALSE]
    ELSE [tree |-> [destination EXCEPT !.nodes = NodeAssign(destination, source),
                                       !.nodeCount = source.nodeCount,
                                       !.rootIndex = source.rootIndex],
          ret |-> TRUE]

\* a NodeCreate that grows the array by one slot
NodeCreateByOne(t, fatherIndex, key, value) ==
    LET nodeCount == t.nodeCount
        size2 == LET d == ToUint64(t.size + 1)
                 IN  IF d > Nil(t) THEN Nil(t) ELSE d
        node == [fatherIndex |-> ToIndexType(t.bitLength, fatherIndex),
                 leftIndex   |-> Nil(t),
                 rightIndex  |-> Nil(t),
                 color       |-> Red,
                 key         |-> key,
                 value       |-> value]
        \* RBTree* newTree=CreateSize(size); Assign(newTree,tree,true); tree=newTree;
        grow(x) == IF nodeCount = x.size
                   THEN Assign(CreateSize(x.bitLength, size2), x).tree
                   ELSE x
        \* nodes[nodeCount]...=...; tree->nodeCount=tree->nodeCount+1;
        fill(x) == [x EXCEPT !.nodes = [i \in 0..nodeCount |->
                                          IF i = nodeCount THEN node ELSE x.nodes[i]],
                             !.nodeCount = x.nodeCount + 1]
        \* return tree->nodeCount-1;
        result(x) == [tree |-> x, index |-> x.nodeCount - 1]
    IN  IF nodeCount = t.size /\ t.size = Nil(t)
        THEN [tree |-> t, index |-> Nil(t)]
        ELSE result(fill(grow(t)))

\* a NodeCreate that stores the new pair in slot 0 and moves the pair of
\* slot 0 into the new slot
NodeCreateInFront(t, fatherIndex, key, value) ==
    LET nodeCount == t.nodeCount
        size2 == LET d == ToUint64(t.size * 2)
                 IN  IF d > Nil(t) THEN Nil(t) ELSE d
        node == [fatherIndex |-> ToIndexType(t.bitLength, fatherIndex),
                 leftIndex   |-> Nil(t),
                 rightIndex  |-> Nil(t),
                 color       |-> Red,
                 key         |-> key,
                 value       |-> value]
        \* RBTree* newTree=CreateSize(size); Assign(newTree,tree,true); tree=newTree;
        grow(x) == IF nodeCount = x.size
                   THEN Assign(CreateSize(x.bitLength, size2), x).tree
                   ELSE x
        \* nodes[nodeCount]...=...; tree->nodeCount=tree->nodeCount+1;
        fill(x) == [x EXCEPT !.nodes = [i \in 0..nodeCount |->
                                          IF i = nodeCount
                                          THEN IF nodeCount = 0 THEN node
                                               ELSE [node EXCEPT !.key = x.nodes[0].key,
                                                                 !.value = x.nodes[0].value]
                                          ELSE IF i = 0
                                               THEN [x.nodes[0] EXCEPT !.key = key,
                                                                       !.value = value]
                                               ELSE x.nodes[i]],
                             !.nodeCount = x.nodeCount + 1]
        \* return tree->nodeCount-1;
        result(x) == [tree |-> x, index |-> x.nodeCount - 1]
    IN  IF nodeCount = t.size /\ t.size = Nil(t)
        THEN [tree |-> t, index |-> Nil(t)]
        ELSE result(fill(grow(t)))

\* returns [tree, index]
NodeCreate(t, fatherIndex, key, value) ==
    LET nodeCount == t.nodeCount
        size2 == LET d == ToUint64(t.size * 2)
                 IN  IF d > Nil(t) THEN Nil(t) ELSE d
        node == [fatherIndex |-> ToIndexType(t.bitLength, fatherIndex),
                 leftIndex   |-> Nil(t),
                 rightIndex  |-> Nil(t),
                 color       |-> Red,
                 key         |-> key,
                 value       |-> value]
        \* RBTree* newTree=CreateSize(size); Assign(newTree,tree,true); tree=newTree;
        grow(x) == IF nodeCount = x.size
                   THEN Assign(CreateSize(x.bitLength, size2), x).tree
                   ELSE x
        \* nodes[nodeCount]...=...; tree->nodeCount=tree->nodeCount+1;
        fill(x) == [x EXCEPT !.nodes = [i \in 0..nodeCount |->
                                          IF i = nodeCount THEN node ELSE x.nodes[i]],
                             !.nodeCount = x.nodeCount + 1]
        \* return tree->nodeCount-1;
        result(x) == [tree |-> x, index |-> x.nodeCount - 1]
    IN  IF nodeCount = t.size /\ t.size = Nil(t)
        THEN [tree |-> t, index |-> Nil(t)]
        ELSE result(fill(grow(t)))

GetRouteCase(t, current, father, grandfather) ==
    IF t.nodes[grandfather].leftIndex = father
    THEN IF t.nodes[father].leftIndex = current THEN "LL" ELSE "LR"
    ELSE IF t.nodes[father].leftIndex = current THEN "RL" ELSE "RR"

\* if(grandfather==root) rootIndex=top; else greatGrandfather's link to
\* grandfather becomes top
ReplaceUnderGreat(t, root, grandfather, greatGrandfather, top) ==
    IF grandfather = root
    THEN SetRoot(t, top)
    ELSE IF t.nodes[greatGrandfather].leftIndex = grandfather
         THEN SetLeft(t, greatGrandfather, top)
         ELSE SetRight(t, greatGrandfather, top)

InsertRotateRR(t, root, current, father, grandfather) ==
    LET s1(x) == SetRight(x, grandfather, x.nodes[father].leftIndex)
        s2(x) == IF x.nodes[grandfather].rightIndex # Nil(x)
                 THEN SetFather(x, x.nodes[grandfather].rightIndex, grandfather)
                 ELSE x
        s3(x) == SetLeft(x, father, grandfather)
        s4(x) == LET greatGrandfather == x.nodes[grandfather].fatherIndex
                 IN  ReplaceUnderGreat(
                         SetFather(SetFather(x, grandfather, father),
                                   father, greatGrandfather),
                         root, grandfather, greatGrandfather, father)
        s5(x) == SetColor(SetColor(x, father, Black), grandfather, Red)
    IN  s5(s4(s3(s2(s1(t)))))

InsertRotateLL(t, root, current, father, grandfather) ==
    LET s1(x) == SetLeft(x, grandfather, x.nodes[father].rightIndex)
        s2(x) == IF x.nodes[grandfather].leftIndex # Nil(x)
                 THEN SetFather(x, x.nodes[grandfather].leftIndex, grandfather)
                 ELSE x
        s3(x) == SetRight(x, father, grandfather)
        s4(x) == LET greatGrandfather == x.nodes[grandfather].fatherIndex
                 IN  ReplaceUnderGreat(
                         SetFather(SetFather(x, father, greatGrandfather),
                                   grandfather, father),
                         root, grandfather, greatGrandfather, father)
        s5(x) == SetColor(SetColor(x, father, Black), grandfather, Red)
    IN  s5(s4(s3(s2(s1(t)))))

InsertRotateRL(t, root, current, father, grandfather) ==
    LET s1(x) == SetLeft(x, father, x.nodes[current].rightIndex)
        s2(x) == IF x.nodes[father].leftIndex # Nil(x)
                 THEN SetFather(x, x.nodes[father].leftIndex, father)
                 ELSE x
        s3(x) == SetRight(x, grandfather, x.nodes[current].leftIndex)
        s4(x) == IF x.nodes[grandfather].rightIndex # Nil(x)
                 THEN SetFather(x, x.nodes[grandfather].rightIndex, grandfather)
                 ELSE x
        s5(x) == SetRight(SetLeft(x, current, grandfather), current, father)
        s6(x) == LET greatGrandfather == x.nodes[grandfather].fatherIndex
                 IN  ReplaceUnderGreat(
                         SetFather(SetFather(SetFather(x, current, greatGrandfather),
                                             father, current),
                                   grandfather, current),
                         root, grandfather, greatGrandfather, current)
        s7(x) == SetColor(SetColor(x, current, Black), grandfather, Red)
    IN  s7(s6(s5(s4(s3(s2(s1(t)))))))

\* the left-right rotation hanging father and grandfather under current on
\* the wrong sides
InsertRotateLRSwapped(t, root, current, father, grandfather) ==
    LET s1(x) == SetRight(x, father, x.nodes[current].leftIndex)
        s2(x) == IF x.nodes[father].rightIndex # Nil(x)
                 THEN SetFather(x, x.nodes[father].rightIndex, father)
                 ELSE x
        s3(x) == SetLeft(x, grandfather, x.nodes[current].rightIndex)
        s4(x) == IF x.nodes[grandfather].leftIndex # Nil(x)
                 THEN SetFather(x, x.nodes[grandfather].leftIndex, grandfather)
                 ELSE x
        s5(x) == SetRight(SetLeft(x, current, grandfather), current, father)
        s6(x) == LET greatGrandfather == x.nodes[grandfather].fatherIndex
                 IN  ReplaceUnderGreat(
                         SetFather(SetFather(SetFather(x, current, greatGrandfather),
                                             father, current),
                                   grandfather, current),
                         root, grandfather, greatGrandfather, current)
        s7(x) == SetColor(SetColor(x, current, Black), grandfather, Red)
    IN  s7(s6(s5(s4(s3(s2(s1(t)))))))

InsertRotateLR(t, root, current, father, grandfather) ==
    LET s1(x) == SetRight(x, father, x.nodes[current].leftIndex)
        s2(x) == IF x.nodes[father].rightIndex # Nil(x)
                 THEN SetFather(x, x.nodes[father].rightIndex, father)
                 ELSE x
        s3(x) == SetLeft(x, grandfather, x.nodes[current].rightIndex)
        s4(x) == IF x.nodes[grandfather].leftIndex # Nil(x)
                 THEN SetFather(x, x.nodes[grandfather].leftIndex, grandfather)
                 ELSE x
        s5(x) == SetRight(SetLeft(x, current, father), current, grandfather)
        s6(x) == LET greatGrandfather == x.nodes[grandfather].fatherIndex
                 IN  ReplaceUnderGreat(
                         SetFather(SetFather(SetFather(x, current, greatGrandfather),
                                             father, current),
                                   grandfather, current),
                         root, grandfather, greatGrandfather, current)
        s7(x) == SetColor(SetColor(x, current, Black), grandfather, Red)
    IN  s7(s6(s5(s4(s3(s2(s1(t)))))))

\* the uncle of the route case is present and Red
RedUncle(t, routeCase, grandfather) ==
    LET uncle == IF routeCase \in {"RR", "RL"}
                 THEN t.nodes[grandfather].leftIndex
                 ELSE t.nodes[grandfather].rightIndex
    IN  uncle # Nil(t) /\ t.nodes[uncle].color = Red

RECURSIVE InsertCore(_, _, _, _, _)
InsertCore(t, root, current, father, grandfather) ==
    IF ~(t.nodes[current].color = Red /\ t.nodes[father].color = Red)
    THEN t
    ELSE LET routeCase == GetRouteCase(t, current, father, grandfather)
             \* redUncle:
             s1(x) == SetColor(x, grandfather, Red)
             s2(x) == SetColor(x, x.nodes[grandfather].leftIndex, Black)
             s3(x) == SetColor(x, x.nodes[grandfather].rightIndex, Black)
             s4(x) == LET current2 == x.nodes[x.nodes[current].fatherIndex].fatherIndex
                      IN  IF current2 = x.rootIndex
                             \/ x.nodes[current2].fatherIndex = x.rootIndex
                          THEN SetColor(x, x.rootIndex, Black)
                          ELSE InsertCore(x, root, current2,
                                          x.nodes[current2].fatherIndex,
                                          x.nodes[x.nodes[current2].fatherIndex].fatherIndex)
         IN  IF RedUncle(t, routeCase, grandfather)
             THEN s4(s3(s2(s1(t))))
             ELSE CASE routeCase = "RR" -> InsertRotateRR(t, root, current, father, grandfather)
                    [] routeCase = "RL" -> InsertRotateRL(t, root, current, father, grandfather)
                    [] routeCase = "LR" -> InsertRotateLR(t, root, current, father, grandfather)
                    [] OTHER -> InsertRotateLL(t, root, current, father, grandfather)

\* The descent shared by Insert and operator[]: returns
\* [kind, tree, index] with kind "found" (index holds the key), "full"
\* (absent and nodeCount = MaxNodeCount) or "new" (leaf created at index).
RECURSIVE InsertDescend(_, _, _, _)
InsertDescend(t, current, key, value) ==
    LET linkRight(c) == [kind |-> "new",
                         tree |-> SetRight(c.tree, current, c.index),
                         index |-> c.index]
        linkLeft(c) == [kind |-> "new",
                        tree |-> SetLeft(c.tree, current, c.index),
                        index |-> c.index]
    IN  IF key > t.nodes[current].key
        THEN IF t.nodes[current].rightIndex = Nil(t)
             THEN IF t.nodeCount = Nil(t)
                  THEN [kind |-> "full", tree |-> t, index |-> current]
                  ELSE linkRight(NodeCreate(t, current, key, value))
             ELSE InsertDescend(t, t.nodes[current].rightIndex, key, value)
        ELSE IF key < t.nodes[current].key
             THEN IF t.nodes[current].leftIndex = Nil(t)
                  THEN IF t.nodeCount = Nil(t)
                       THEN [kind |-> "full", tree |-> t, index |-> current]
                       ELSE linkLeft(NodeCreate(t, current, key, value))
                  ELSE InsertDescend(t, t.nodes[current].leftIndex, key, value)
             ELSE [kind |-> "found", tree |-> t, index |-> current]

\* the tail of Insert and operator[] after a leaf was created
InsertFixup(t, current) ==
    LET root == t.rootIndex
        father == t.nodes[current].fatherIndex
    IN  IF t.nodes[father].fatherIndex # Nil(t)
        THEN InsertCore(t, root, current, father, t.nodes[father].fatherIndex)
        ELSE t

\* Insert that also paints the slot of a key already present Black
InsertRepaints(t, key, value) ==
    LET first(c) == [tree |-> SetColor(SetRoot(c.tree, c.index), c.index, Black),
                     ret |-> TRUE]
        after(d) == CASE d.kind = "full"  -> [tree |-> t, ret |-> FALSE]
                      [] d.kind = "found" ->
                             [tree |-> [t EXCEPT !.nodes[d.index].value = value,
                                                 !.nodes[d.index].color = Black],
                              ret |-> TRUE]
                      [] OTHER -> [tree |-> InsertFixup(d.tree, d.index), ret |-> TRUE]
    IN  IF t.nodeCount = 0
        THEN first(NodeCreate(t, Nil(t), key, value))
        ELSE after(InsertDescend(t, t.rootIndex, key, value))

\* Insert that keeps the stored value of a key already present
InsertKeepsOld(t, key, value) ==
    LET first(c) == [tree |-> SetColor(SetRoot(c.tree, c.index), c.index, Black),
                     ret |-> TRUE]
        after(d) == CASE d.kind = "full"  -> [tree |-> t, ret |-> FALSE]
                      [] d.kind = "found" -> [tree |-> t, ret |-> TRUE]
                      [] OTHER -> [tree |-> InsertFixup(d.tree, d.index), ret |-> TRUE]
    IN  IF t.nodeCount = 0
        THEN first(NodeCreate(t, Nil(t), key, value))
        ELSE after(InsertDescend(t, t.rootIndex, key, value))

\* Insert that refuses every key, present or absent, once the tree is full
InsertRefusesFull(t, key, value) ==
    LET first(c) == [tree |-> SetColor(SetRoot(c.tree, c.index), c.index, Black),
                     ret |-> TRUE]
        after(d) == CASE d.kind = "full"  -> [tree |-> t, ret |-> FALSE]
                      [] d.kind = "found" ->
                             IF t.nodeCount = Nil(t)
                             THEN [tree |-> t, ret |-> FALSE]
                             ELSE [tree |-> [t EXCEPT !.nodes[d.index].value = value],
                                   ret |-> TRUE]
                      [] OTHER -> [tree |-> InsertFixup(d.tree, d.index), ret |-> TRUE]
    IN  IF t.nodeCount = 0
        THEN first(NodeCreate(t, Nil(t), key, value))
        ELSE after(InsertDescend(t, t.rootIndex, key, value))

\* returns [tree, ret]
Insert(t, key, value) ==
    LET first(c) == [tree |-> SetColor(SetRoot(c.tree, c.index), c.index, Black),
                     ret |-> TRUE]
        after(d) == CASE d.kind = "full"  -> [tree |-> t, ret |-> FALSE]
                      [] d.kind = "found" -> [tree |-> [t EXCEPT !.nodes[d.index].value = value],
                                              ret |-> TRUE]
                      [] OTHER -> [tree |-> InsertFixup(d.tree, d.index), ret |-> TRUE]
    IN  IF t.nodeCount = 0
        THEN first(NodeCreate(t, Nil(t), key, value))
        ELSE after(InsertDescend(t, t.rootIndex, key, value))

\* operator[] whose reference, after a leaf was created and the fixup has
\* run, denotes the value of the root
SubscriptThroughRoot(t, key, value) ==
    LET store(x, index) == [tree |-> [x EXCEPT !.nodes[index].value = value],
                            ret |-> TRUE, index |-> index]
        first(c) == store(SetColor(SetRoot(c.tree, c.index), c.index, Black), c.index)
        fixed(x) == store(x, x.rootIndex)
        after(d) == CASE d.kind = "full"  -> [tree |-> t, ret |-> FALSE, index |-> Nil(t)]
                      [] d.kind = "found" -> store(t, d.index)
                      [] OTHER -> fixed(InsertFixup(d.tree, d.index))
    IN  IF t.nodeCount = 0
        THEN first(NodeCreate(t, Nil(t), key, DefaultValue))
        ELSE after(InsertDescend(t, t.rootIndex, key, DefaultValue))

\* operator[](key) followed by the assignment of value through the
\* returned reference; returns [tree, ret, index] (ret FALSE: out_of_range)
Subscript(t, key, value) ==
    LET store(x, index) == [tree |-> [x EXCEPT !.nodes[index].value = value],
                            ret |-> TRUE, index |-> index]
        first(c) == store(SetColor(SetRoot(c.tree, c.index), c.index, Black), c.index)
        after(d) == CASE d.kind = "full"  -> [tree |-> t, ret |-> FALSE, index |-> Nil(t)]
                      [] d.kind = "found" -> store(t, d.index)
                      [] OTHER -> store(InsertFixup(d.tree, d.index), d.index)
    IN  IF t.nodeCount = 0
        THEN first(NodeCreate(t, Nil(t), key, DefaultValue))
        ELSE after(InsertDescend(t, t.rootIndex, key, DefaultValue))

----------------------------------------------------------------------------
(* Delete.  The locals myFatherIndex/father, myBrotherIndex/brother and    *)
(* myGrandfatherIndex/grandfather of DeleteCore are the record             *)
(* [f, b, g]: each pointer is always nodes + its index, and                *)
(* FatherBrotherGrandFatherUpdate rewrites both together.                  *)

\* cached indices that the compaction does not rewrite
FatherBrotherGrandFatherKept(t, toMoveIndex, toDeleteIndex, loc) ==
    [tree |-> t, loc |-> loc]

\* returns [tree, loc]
FatherBrotherGrandFatherUpdate(t, toMoveIndex, toDeleteIndex, loc) ==
    LET checkRoot(tt) == IF tt.rootIndex = toMoveIndex THEN SetRoot(tt, toDeleteIndex) ELSE tt
    IN  IF loc.f = toMoveIndex
        THEN [tree |-> checkRoot(t), loc |-> [loc EXCEPT !.f = toDeleteIndex]]
        ELSE IF loc.b = toMoveIndex
             THEN [tree |-> checkRoot(t), loc |-> [loc EXCEPT !.b = toDeleteIndex]]
             ELSE IF loc.g = toMoveIndex
                  THEN [tree |-> checkRoot(t), loc |-> [loc EXCEPT !.g = toDeleteIndex]]
                  ELSE [tree |-> t, loc |-> loc]

\* a DeleteNode that leaves the moved node's children pointing at the last slot
DeleteNodeKeepsChildren(t, father, toDeleteIndex, loc) ==
    LET s1(x) == IF x.nodes[father].leftIndex = toDeleteIndex
                 THEN SetLeft(x, father, Nil(x))
                 ELSE SetRight(x, father, Nil(x))
        \* tree->nodeCount=tree->nodeCount-1;
        s7(x) == [x EXCEPT !.nodeCount = x.nodeCount - 1,
                           !.nodes = [i \in 0..(x.nodeCount - 2) |-> x.nodes[i]]]
        s2(x) ==
            LET toMove == x.nodeCount - 1
                m1(y) == IF toMove # y.rootIndex
                         THEN IF y.nodes[y.nodes[toMove].fatherIndex].leftIndex = toMove
                              THEN SetLeft(y, y.nodes[toMove].fatherIndex, toDeleteIndex)
                              ELSE SetRight(y, y.nodes[toMove].fatherIndex, toDeleteIndex)
                         ELSE SetRoot(y, toDeleteIndex)
                m2(y) == FatherBrotherGrandFatherUpdate(y, toMove, toDeleteIndex, loc)
                m3(y) == IF y.nodes[toMove].leftIndex # Nil(y)
                         THEN SetFather(y, y.nodes[toMove].leftIndex, toDeleteIndex)
                         ELSE y
                m4(y) == IF y.nodes[toMove].rightIndex # Nil(y)
                         THEN SetFather(y, y.nodes[toMove].rightIndex, toDeleteIndex)
                         ELSE y
                m5(y) == [y EXCEPT !.nodes[toDeleteIndex] = y.nodes[toMove]]
            IN  IF toMove # toDeleteIndex
                THEN [m2(m1(x)) EXCEPT !.tree = s7(m5(@))]
                ELSE [tree |-> s7(x), loc |-> loc]
    IN  s2(s1(t))

\* returns [tree, loc]
DeleteNode(t, father, toDeleteIndex, loc) ==
    LET s1(x) == IF x.nodes[father].leftIndex = toDeleteIndex
                 THEN SetLeft(x, father, Nil(x))
                 ELSE SetRight(x, father, Nil(x))
        \* tree->nodeCount=tree->nodeCount-1;
        s7(x) == [x EXCEPT !.nodeCount = x.nodeCount - 1,
                           !.nodes = [i \in 0..(x.nodeCount - 2) |-> x.nodes[i]]]
        s2(x) ==
            LET toMove == x.nodeCount - 1
                m1(y) == IF toMove # y.rootIndex
                         THEN IF y.nodes[y.nodes[toMove].fatherIndex].leftIndex = toMove
                              THEN SetLeft(y, y.nodes[toMove].fatherIndex, toDeleteIndex)
                              ELSE SetRight(y, y.nodes[toMove].fatherIndex, toDeleteIndex)
                         ELSE SetRoot(y, toDeleteIndex)
                m2(y) == FatherBrotherGrandFatherUpdate(y, toMove, toDeleteIndex, loc)
                m3(y) == IF y.nodes[toMove].leftIndex # Nil(y)
                         THEN SetFather(y, y.nodes[toMove].leftIndex, toDeleteIndex)
                         ELSE y
                m4(y) == IF y.nodes[toMove].rightIndex # Nil(y)
                         THEN SetFather(y, y.nodes[toMove].rightIndex, toDeleteIndex)
                         ELSE y
                m5(y) == [y EXCEPT !.nodes[toDeleteIndex] = y.nodes[toMove]]
            IN  IF toMove # toDeleteIndex
                THEN [m2(m1(x)) EXCEPT !.tree = s7(m5(m4(m3(@))))]
                ELSE [tree |-> s7(x), loc |-> loc]
    IN  s2(s1(t))

\* if(tree->rootIndex==myFatherIndex) rootIndex=top; else the grandfather's
\* link to the father becomes top
RelinkGrandfather(t, loc, top) ==
    IF t.rootIndex = loc.f
    THEN SetRoot(t, top)
    ELSE IF t.nodes[loc.g].leftIndex = loc.f
         THEN SetLeft(t, loc.g, top)
         ELSE SetRight(t, loc.g, top)

\* case RR: the removed node is a left child, brother Black with a Red right child
DeleteCaseRR(t, loc) ==
    LET s1(x) == SetColor(x, x.nodes[loc.b].rightIndex, Black)
        s2(x) == SetColor(x, loc.b, x.nodes[loc.f].color)
        s3(x) == SetColor(x, loc.f, Black)
        s4(x) == SetRight(x, loc.f, x.nodes[loc.b].leftIndex)
        s5(x) == IF x.nodes[loc.f].rightIndex # Nil(x)
                 THEN SetFather(x, x.nodes[loc.f].rightIndex, loc.f)
                 ELSE x
        s6(x) == SetLeft(x, loc.b, loc.f)
        s7(x) == SetFather(x, loc.f, loc.b)
        s8(x) == SetFather(x, loc.b, loc.g)
    IN  RelinkGrandfather(s8(s7(s6(s5(s4(s3(s2(s1(t)))))))), loc, loc.b)

\* case RL: the removed node is a left child, brother Black with a Red left child
DeleteCaseRL(t, loc) ==
    LET leftChild == t.nodes[loc.b].leftIndex
        s1(x) == SetColor(x, leftChild, x.nodes[loc.f].color)
        s2(x) == SetColor(x, loc.f, Black)
        s3(x) == SetRight(x, loc.f, x.nodes[leftChild].leftIndex)
        s4(x) == IF x.nodes[loc.f].rightIndex # Nil(x)
                 THEN SetFather(x, x.nodes[loc.f].rightIndex, loc.f)
                 ELSE x
        s5(x) == SetLeft(x, leftChild, loc.f)
        s6(x) == SetFather(x, loc.f, leftChild)
        s7(x) == SetFather(x, leftChild, loc.g)
        s8(x) == RelinkGrandfather(x, loc, leftChild)
        s9(x) == SetLeft(x, loc.b, x.nodes[leftChild].rightIndex)
        s10(x) == IF x.nodes[loc.b].leftIndex # Nil(x)
                  THEN SetFather(x, x.nodes[loc.b].leftIndex, loc.b)
                  ELSE x
        s11(x) == SetRight(x, leftChild, loc.b)
        s12(x) == SetFather(x, loc.b, leftChild)
    IN  s12(s11(s10(s9(s8(s7(s6(s5(s4(s3(s2(s1(t))))))))))))

\* case LL: the removed node is a right child, brother Black with a Red left child
DeleteCaseLL(t, loc) ==
    LET s1(x) == SetColor(x, x.nodes[loc.b].leftIndex, Black)
        s2(x) == SetColor(x, loc.b, x.nodes[loc.f].color)
        s3(x) == SetColor(x, loc.f, Black)
        s4(x) == SetLeft(x, loc.f, x.nodes[loc.b].rightIndex)
        s5(x) == IF x.nodes[loc.f].leftIndex # Nil(x)
                 THEN SetFather(x, x.nodes[loc.f].leftIndex, loc.f)
                 ELSE x
        s6(x) == SetRight(x, loc.b, loc.f)
        s7(x) == SetFather(x, loc.f, loc.b)
        s8(x) == SetFather(x, loc.b, loc.g)
    IN  RelinkGrandfather(s8(s7(s6(s5(s4(s3(s2(s1(t)))))))), loc, loc.b)

\* case LR: the removed node is a right child, brother Black with a Red right child
DeleteCaseLR(t, loc) ==
    LET rightChild == t.nodes[loc.b].rightIndex
        s1(x) == SetColor(x, rightChild, x.nodes[loc.f].color)
        s2(x) == SetColor(x, loc.f, Black)
        s3(x) == SetRight(x, loc.b, x.nodes[rightChild].leftIndex)
        s4(x) == IF x.nodes[loc.b].rightIndex # Nil(x)
                 THEN SetFather(x, x.nodes[loc.b].rightIndex, loc.b)
                 ELSE x
        s5(x) == SetLeft(x, rightChild, loc.b)
        s6(x) == SetFather(x, loc.b, rightChild)
        s7(x) == SetFather(x, rightChild, loc.g)
        s8(x) == RelinkGrandfather(x, loc, rightChild)
        s9(x) == SetLeft(x, loc.f, x.nodes[rightChild].rightIndex)
        s10(x) == IF x.nodes[loc.f].leftIndex # Nil(x)
                  THEN SetFather(x, x.nodes[loc.f].leftIndex, loc.f)
                  ELSE x
        s11(x) == SetRight(x, rightChild, loc.f)
        s12(x) == SetFather(x, loc.f, rightChild)
    IN  s12(s11(s10(s9(s8(s7(s6(s5(s4(s3(s2(s1(t))))))))))))

\* Red brother on the right of the father: rotate the father to the left
DeleteRedBrotherRight(t, loc) ==
    LET s1(x) == SetColor(x, loc.b, Black)
        s2(x) == SetColor(x, loc.f, Red)
        s3(x) == SetRight(x, loc.f, x.nodes[loc.b].leftIndex)
        s4(x) == IF x.nodes[loc.f].rightIndex # Nil(x)
                 THEN SetFather(x, x.nodes[loc.f].rightIndex, loc.f)
                 ELSE x
        s5(x) == SetFather(x, loc.f, loc.b)
        s6(x) == SetLeft(x, loc.b, loc.f)
        s7(x) == SetFather(x, loc.b, loc.g)
    IN  RelinkGrandfather(s7(s6(s5(s4(s3(s2(s1(t))))))), loc, loc.b)

\* Red brother on the left of the father: rotate the father to the right
DeleteRedBrotherLeft(t, loc) ==
    LET s1(x) == SetColor(x, loc.b, Black)
        s2(x) == SetColor(x, loc.f, Red)
        s3(x) == SetLeft(x, loc.f, x.nodes[loc.b].rightIndex)
        s4(x) == IF x.nodes[loc.f].leftIndex # Nil(x)
                 THEN SetFather(x, x.nodes[loc.f].leftIndex, loc.f)
                 ELSE x
        s5(x) == SetFather(x, loc.f, loc.b)
        s6(x) == SetRight(x, loc.b, loc.f)
        s7(x) == SetFather(x, loc.b, loc.g)
    IN  RelinkGrandfather(s7(s6(s5(s4(s3(s2(s1(t))))))), loc, loc.b)

\* IsRedChild with the colour test inverted
IsRedChildInverted(t, i) == i # Nil(t) /\ t.nodes[i].color = Black

IsRedChild(t, i) == i # Nil(t) /\ t.nodes[i].color = Red

\* doubleBlackFix: ... goto doubleBlackFix.  returns [tree, deleteIndex];
\* deleteIndex is the output parameter as last written (dIdx on entry)
RECURSIVE DoubleBlackFix(_, _, _, _, _)
DoubleBlackFix(t, currentIndex, loc0, deleted, dIdx) ==
    LET g == t.nodes[loc0.f].fatherIndex
        isLeft == t.nodes[loc0.f].leftIndex = currentIndex
        b == IF isLeft THEN t.nodes[loc0.f].rightIndex ELSE t.nodes[loc0.f].leftIndex
        loc1 == [f |-> loc0.f, b |-> b, g |-> g]
        victim == IF isLeft THEN t.nodes[loc0.f].leftIndex ELSE t.nodes[loc0.f].rightIndex
        dIdx2 == IF ~deleted THEN ToIndexType(t.bitLength, victim) ELSE dIdx
        near == IF isLeft THEN t.nodes[b].leftIndex ELSE t.nodes[b].rightIndex
        far  == IF isLeft THEN t.nodes[b].rightIndex ELSE t.nodes[b].leftIndex
        \* if(!deleted){*(deleteIndex)=...; DeleteNode(...);}
        remove(x) == IF ~deleted
                     THEN DeleteNode(x, loc1.f, victim, loc1)
                     ELSE [tree |-> x, loc |-> loc1]
        \* brotherChildBothBlack: after brother->color=Red
        propagate(x, loc) ==
            IF x.rootIndex = loc.f
            THEN [tree |-> x, deleteIndex |-> dIdx2]
            ELSE IF x.nodes[loc.f].color = Red
                 THEN [tree |-> SetColor(x, loc.f, Black), deleteIndex |-> dIdx2]
                 ELSE DoubleBlackFix(x, loc.f,
                                     [f |-> x.nodes[loc.f].fatherIndex,
                                      b |-> loc.b,
                                      g |-> x.nodes[x.nodes[loc.f].fatherIndex].fatherIndex],
                                     TRUE, dIdx2)
        \* brother Black: the case is chosen on the tree before the removal
        blackBrother(d) ==
            IF IsRedChild(t, far)
            THEN [tree |-> IF isLeft THEN DeleteCaseRR(d.tree, d.loc)
                                     ELSE DeleteCaseLL(d.tree, d.loc),
                  deleteIndex |-> dIdx2]
            ELSE IF IsRedChild(t, near)
                 THEN [tree |-> IF isLeft THEN DeleteCaseRL(d.tree, d.loc)
                                          ELSE DeleteCaseLR(d.tree, d.loc),
                       deleteIndex |-> dIdx2]
                 ELSE propagate(SetColor(d.tree, d.loc.b, Red), d.loc)
    IN  IF t.nodes[b].color = Black
        THEN blackBrother(remove(t))
        ELSE DoubleBlackFix(IF isLeft THEN DeleteRedBrotherRight(t, loc1)
                                      ELSE DeleteRedBrotherLeft(t, loc1),
                            currentIndex, loc1, deleted, dIdx)

\* the one-child case releasing the child's slot without copying its pair
DeleteOneChildNoCopy(t, current, child, loc) ==
    [tree |-> DeleteNode(t, current, child, loc).tree,
     deleteIndex |-> child]

\* current has one child (leaf): copy the child's pair into current and
\* release the child's slot
DeleteOneChild(t, current, child, loc) ==
    LET t1 == SetKeyValue(t, current, t.nodes[child].key, t.nodes[child].value)
    IN  [tree |-> DeleteNode(t1, current, child, loc).tree,
         deleteIndex |-> child]

\* deleteBegin: current has no left child
DeleteBegin(t, currentIndex, loc) ==
    IF t.nodes[currentIndex].rightIndex = Nil(t)
    THEN IF t.nodes[currentIndex].color = Red
         THEN [tree |-> DeleteNode(t, loc.f, currentIndex, loc).tree,
               deleteIndex |-> ToIndexType(t.bitLength, currentIndex)]
         ELSE DoubleBlackFix(t, currentIndex, loc, FALSE, Nil(t))
    ELSE DeleteOneChild(t, currentIndex, t.nodes[currentIndex].rightIndex, loc)

RECURSIVE LeftMost(_, _)
LeftMost(t, i) ==
    IF t.nodes[i].leftIndex # Nil(t) THEN LeftMost(t, t.nodes[i].leftIndex) ELSE i

RECURSIVE RightMost(_, _)
RightMost(t, i) ==
    IF t.nodes[i].rightIndex # Nil(t) THEN RightMost(t, t.nodes[i].rightIndex) ELSE i

\* gotoRightSmallest:
GotoRightSmallest(t, current) ==
    LET rightSmallest == LeftMost(t, t.nodes[current].rightIndex)
        s1(x) == SetKeyValue(x, current, x.nodes[rightSmallest].key,
                             x.nodes[rightSmallest].value)
        s2(x) == DeleteBegin(x, rightSmallest,
                             [f |-> x.nodes[rightSmallest].fatherIndex,
                              b |-> Nil(x),
                              g |-> x.nodes[x.nodes[rightSmallest].fatherIndex].fatherIndex])
    IN  s2(s1(t))

\* the descent of DeleteCore: the slot holding key, or Nil
RECURSIVE Descend(_, _, _)
Descend(t, current, key) ==
    IF key > t.nodes[current].key
    THEN IF t.nodes[current].rightIndex = Nil(t) THEN Nil(t)
         ELSE Descend(t, t.nodes[current].rightIndex, key)
    ELSE IF key < t.nodes[current].key
         THEN IF t.nodes[current].leftIndex = Nil(t) THEN Nil(t)
              ELSE Descend(t, t.nodes[current].leftIndex, key)
         ELSE current

\* returns [tree, ret, deleteIndex]; precondition nodeCount > 0
DeleteCore(t, key) ==
    LET done(r) == [tree |-> r.tree, ret |-> TRUE, deleteIndex |-> r.deleteIndex]
        found(current) ==
            LET n == t.nodes[current]
                loc == [f |-> n.fatherIndex, b |-> Nil(t), g |-> Nil(t)]
            IN  IF n.fatherIndex = Nil(t)
                THEN IF n.leftIndex = Nil(t)
                     THEN done(DeleteOneChild(t, current, n.rightIndex, loc))
                     ELSE IF n.rightIndex = Nil(t)
                          THEN done(DeleteOneChild(t, current, n.leftIndex, loc))
                          ELSE done(GotoRightSmallest(t, current))
                ELSE IF n.leftIndex = Nil(t)
                     THEN done(DeleteBegin(t, current, loc))
                     ELSE IF n.rightIndex = Nil(t)
                          THEN done(DeleteOneChild(t, current, n.leftIndex, loc))
                          ELSE done(GotoRightSmallest(t, current))
        search(current) == IF current = Nil(t)
                           THEN [tree |-> t, ret |-> FALSE, deleteIndex |-> Nil(t)]
                           ELSE found(current)
    IN  IF t.nodeCount = 1
        THEN IF key = t.nodes[t.rootIndex].key
             THEN [tree |-> [t EXCEPT !.rootIndex = 0, !.nodeCount = 0, !.nodes = EmptyNodes],
                   ret |-> TRUE, deleteIndex |-> 0]
             ELSE [tree |-> t, ret |-> FALSE, deleteIndex |-> Nil(t)]
        ELSE search(Descend(t, t.rootIndex, key))

\* returns [tree, ret]
Delete(t, key) ==
    LET result(r) == [tree |-> r.tree, ret |-> r.ret]
    IN  IF t.nodeCount = 0
        THEN [tree |-> t, ret |-> FALSE]
        ELSE result(DeleteCore(t, key))

----------------------------------------------------------------------------
(* Lookup *)

NotFound == [found |-> FALSE, value |-> 0, wild |-> FALSE]

\* the read left the live region: the result is not determined by the code
Wild == [found |-> FALSE, value |-> 0, wild |-> TRUE]

RECURSIVE SearchDescend(_, _, _, _)
SearchDescend(t, current, key, fuel) ==
    IF current \notin DOMAIN t.nodes \/ fuel = 0 THEN Wild
    ELSE IF key > t.nodes[current].key
         THEN IF t.nodes[current].rightIndex = Nil(t) THEN NotFound
              ELSE SearchDescend(t, t.nodes[current].rightIndex, key, fuel - 1)
         ELSE IF key < t.nodes[current].key
              THEN IF t.nodes[current].leftIndex = Nil(t) THEN NotFound
                   ELSE SearchDescend(t, t.nodes[current].leftIndex, key, fuel - 1)
              ELSE [found |-> TRUE, value |-> t.nodes[current].value, wild |-> FALSE]

\* returns [found, value, wild]
Search(t, key) ==
    IF t.nodeCount = 0 THEN NotFound
    ELSE SearchDescend(t, t.rootIndex, key, t.nodeCount + 1)

\* what a caller of Search can observe: one outcome, or any outcome when
\* the descent read outside the live region
SearchOutcomes(t, key) ==
    LET r == Search(t, key)
    IN  IF r.wild
        THEN {[found |-> FALSE, value |-> 0]} \cup
             {[found |-> TRUE, value |-> v] : v \in Values \cup {DefaultValue}}
        ELSE {[found |-> r.found, value |-> r.value]}

\* a slot index outside the live region was dereferenced
WildIndex == -1

\* while(current->leftIndex!=MaxNodeCount) current=nodes+current->leftIndex;
RECURSIVE FollowLeft(_, _, _)
FollowLeft(t, current, fuel) ==
    IF current \notin DOMAIN t.nodes \/ fuel = 0 THEN WildIndex
    ELSE IF t.nodes[current].leftIndex # Nil(t)
         THEN FollowLeft(t, t.nodes[current].leftIndex, fuel - 1)
         ELSE current

RECURSIVE FollowRight(_, _, _)
FollowRight(t, current, fuel) ==
    IF current \notin DOMAIN t.nodes \/ fuel = 0 THEN WildIndex
    ELSE IF t.nodes[current].rightIndex # Nil(t)
         THEN FollowRight(t, t.nodes[current].rightIndex, fuel - 1)
         ELSE current

GetMinIndex(t) ==
    IF t.nodeCount # 0 THEN FollowLeft(t, t.rootIndex, t.nodeCount + 1) ELSE Nil(t)

GetMaxIndex(t) ==
    IF t.nodeCount # 0 THEN FollowRight(t, t.rootIndex, t.nodeCount + 1) ELSE Nil(t)

RECURSIVE SmallestGraterDescend(_, _, _, _)
SmallestGraterDescend(t, current, key, candidate) ==
    IF current \notin DOMAIN t.nodes THEN WildIndex
    ELSE IF key < t.nodes[current].key
    THEN IF t.nodes[current].leftIndex = Nil(t) THEN current
         ELSE SmallestGraterDescend(t, t.nodes[current].leftIndex, key, current)
    ELSE IF t.nodes[current].rightIndex = Nil(t) THEN candidate
         ELSE SmallestGraterDescend(t, t.nodes[current].rightIndex, key, candidate)

IndexSmallestGraterThan(t, key) ==
    IF t.nodeCount = 0 THEN Nil(t)
    ELSE SmallestGraterDescend(t, t.rootIndex, key, Nil(t))

RECURSIVE BiggestSmallerDescend(_, _, _, _)
BiggestSmallerDescend(t, current, key, candidate) ==
    IF current \notin DOMAIN t.nodes THEN WildIndex
    ELSE IF key > t.nodes[current].key
    THEN IF t.nodes[current].rightIndex = Nil(t) THEN current
         ELSE BiggestSmallerDescend(t, t.nodes[current].rightIndex, key, current)
    ELSE IF t.nodes[current].leftIndex = Nil(t) THEN candidate
         ELSE BiggestSmallerDescend(t, t.nodes[current].leftIndex, key, candidate)

IndexBiggestSmallerThan(t, key) ==
    IF t.nodeCount = 0 THEN Nil(t)
    ELSE BiggestSmallerDescend(t, t.rootIndex, key, Nil(t))

\* returns [ret, key, value, wild]; key and value are the caller's
\* variables (greater/smaller and value), written only on success
GetAt(t, index, key, value) ==
    IF index = Nil(t)
    THEN [ret |-> FALSE, key |-> key, value |-> value, wild |-> FALSE]
    ELSE IF index \in DOMAIN t.nodes
         THEN [ret |-> TRUE, key |-> t.nodes[index].key,
               value |-> t.nodes[index].value, wild |-> FALSE]
         ELSE [ret |-> TRUE, key |-> key, value |-> value, wild |-> TRUE]

GetSmallestGraterThan(t, query, key, value) ==
    GetAt(t, IndexSmallestGraterThan(t, query), key, value)

GetBiggestSmallerThan(t, query, key, value) ==
    GetAt(t, IndexBiggestSmallerThan(t, query), key, value)

\* the walk up of the in-order successor: Nil when the root is passed,
\* else the first ancestor that is not entered from its right child
RECURSIVE ClimbFromRight(_, _, _)
ClimbFromRight(t, current, fuel) ==
    IF current \notin DOMAIN t.nodes \/ fuel = 0 THEN WildIndex
    ELSE IF t.nodes[current].fatherIndex = Nil(t) THEN Nil(t)
    ELSE IF t.nodes[current].fatherIndex \notin DOMAIN t.nodes THEN WildIndex
    ELSE IF t.nodes[t.nodes[current].fatherIndex].rightIndex # current
         THEN t.nodes[current].fatherIndex
         ELSE ClimbFromRight(t, t.nodes[current].fatherIndex, fuel - 1)

RECURSIVE ClimbFromLeft(_, _, _)
ClimbFromLeft(t, current, fuel) ==
    IF current \notin DOMAIN t.nodes \/ fuel = 0 THEN WildIndex
    ELSE IF t.nodes[current].fatherIndex = Nil(t) THEN Nil(t)
    ELSE IF t.nodes[current].fatherIndex \notin DOMAIN t.nodes THEN WildIndex
    ELSE IF t.nodes[t.nodes[current].fatherIndex].leftIndex # current
         THEN t.nodes[current].fatherIndex
         ELSE ClimbFromLeft(t, t.nodes[current].fatherIndex, fuel - 1)

----------------------------------------------------------------------------
(* Ordered cursor: [currentIndex, reachedBegin, reachedEnd] on a tree;     *)
(* currentIndex = WildIndex once the cursor has read outside the live      *)
(* region.                                                                 *)

OrderedEnd(t) == [currentIndex |-> Nil(t), reachedBegin |-> FALSE, reachedEnd |-> TRUE]

OrderedBegin(t) ==
    IF t.nodeCount = 0 THEN OrderedEnd(t)
    ELSE [currentIndex |-> GetMinIndex(t), reachedBegin |-> FALSE, reachedEnd |-> FALSE]

\* operator++ that ends the walk at a node without a right child instead
\* of climbing to the next ancestor
OrderedIncrementNoClimb(t, it) ==
    IF t.nodeCount # 0 /\ ~it.reachedBegin /\ it.currentIndex \in DOMAIN t.nodes
    THEN IF t.nodes[it.currentIndex].rightIndex # Nil(t)
         THEN [it EXCEPT !.currentIndex =
                  FollowLeft(t, t.nodes[it.currentIndex].rightIndex, t.nodeCount + 1)]
         ELSE [it EXCEPT !.reachedEnd = TRUE, !.currentIndex = Nil(t)]
    ELSE it

\* OrderedIterator::operator++
OrderedIncrement(t, it) ==
    IF t.nodeCount # 0
    THEN IF it.reachedBegin
         THEN [it EXCEPT !.currentIndex = GetMinIndex(t), !.reachedBegin = FALSE]
         ELSE IF it.currentIndex # Nil(t)
              THEN IF it.currentIndex \notin DOMAIN t.nodes
                   THEN [it EXCEPT !.currentIndex = WildIndex]
                   ELSE IF t.nodes[it.currentIndex].rightIndex # Nil(t)
                        THEN [it EXCEPT !.currentIndex =
                                 FollowLeft(t, t.nodes[it.currentIndex].rightIndex, t.nodeCount + 1)]
                        ELSE LET up == ClimbFromRight(t, it.currentIndex, t.nodeCount + 1)
                             IN  IF up = Nil(t)
                                 THEN [it EXCEPT !.reachedEnd = TRUE, !.currentIndex = Nil(t)]
                                 ELSE [it EXCEPT !.currentIndex = up]
              ELSE it
    ELSE it

\* OrderedIterator::operator--
OrderedDecrement(t, it) ==
    IF t.nodeCount # 0
    THEN IF it.reachedEnd
         THEN [it EXCEPT !.currentIndex = GetMaxIndex(t), !.reachedEnd = FALSE]
         ELSE IF it.currentIndex # Nil(t)
              THEN IF it.currentIndex \notin DOMAIN t.nodes
                   THEN [it EXCEPT !.currentIndex = WildIndex]
                   ELSE IF t.nodes[it.currentIndex].leftIndex # Nil(t)
                        THEN [it EXCEPT !.currentIndex =
                                 FollowRight(t, t.nodes[it.currentIndex].leftIndex, t.nodeCount + 1)]
                        ELSE LET up == ClimbFromLeft(t, it.currentIndex, t.nodeCount + 1)
                             IN  IF up = Nil(t)
                                 THEN [it EXCEPT !.reachedBegin = TRUE, !.currentIndex = Nil(t)]
                                 ELSE [it EXCEPT !.currentIndex = up]
              ELSE it
    ELSE it

\* for(it=OrderedBegin(); it!=OrderedEnd(); ++it) collect(it.Key(), it.Value()):
\* [pairs, ended, wild]; ended = FALSE when OrderedEnd() was not reached
\* within fuel advances
RECURSIVE OrderedWalk(_, _, _, _)
OrderedWalk(t, it, acc, fuel) ==
    IF it = OrderedEnd(t) THEN [pairs |-> acc, ended |-> TRUE, wild |-> FALSE]
    ELSE IF it.currentIndex \notin DOMAIN t.nodes
         THEN [pairs |-> acc, ended |-> FALSE, wild |-> TRUE]
    ELSE IF fuel = 0 THEN [pairs |-> acc, ended |-> FALSE, wild |-> FALSE]
    ELSE OrderedWalk(t, OrderedIncrement(t, it),
                     Append(acc, <<t.nodes[it.currentIndex].key, t.nodes[it.currentIndex].value>>),
                     fuel - 1)

OrderedTraversal(t) == OrderedWalk(t, OrderedBegin(t), <<>>, t.nodeCount + 1)

\* OrderedIterator::operator==; header names the backing a cursor points to
OrderedEqual(header, it, anotherHeader, another) ==
    /\ anotherHeader = header
    /\ another.currentIndex = it.currentIndex
    /\ another.reachedBegin = it.reachedBegin
    /\ another.reachedEnd = it.reachedEnd

----------------------------------------------------------------------------
(* Unordered cursor: [currentIndex, reachedBegin] on a tree; currentIndex  *)
(* is an IndexType.                                                        *)

UnorderedEnd(t) ==
    [currentIndex |-> ToIndexType(t.bitLength, t.nodeCount), reachedBegin |-> FALSE]

UnorderedBegin(t) ==
    IF t.nodeCount = 0 THEN UnorderedEnd(t)
    ELSE [currentIndex |-> 0, reachedBegin |-> FALSE]

\* currentIndex==-1: a uint16_t is promoted to int and never equals -1; a
\* uint32_t or uint64_t is compared as unsigned with the all-ones value
EqualsMinusOne(t, index) == t.bitLength # 16 /\ index = MaxNodeCount(t.bitLength)

\* UnorderedIterator::operator++
UnorderedIncrement(t, it) ==
    IF t.nodeCount # 0 /\ (it.currentIndex < t.nodeCount \/ EqualsMinusOne(t, it.currentIndex))
    THEN [it EXCEPT !.currentIndex = ToIndexType(t.bitLength, it.currentIndex + 1)]
    ELSE it

\* UnorderedIterator::operator--
UnorderedDecrement(t, it) ==
    IF t.nodeCount # 0
    THEN IF it.currentIndex > 0
         THEN [it EXCEPT !.currentIndex = it.currentIndex - 1]
         ELSE [it EXCEPT !.reachedBegin = TRUE]
    ELSE it

\* UnorderedIterator::operator==
UnorderedEqual(header, it, anotherHeader, another) ==
    /\ anotherHeader = header
    /\ another.currentIndex = it.currentIndex

\* KeysValues(): the pairs of slots 0 .. KeyCount()-1 in slot order
KeysValues(t) == [i \in 1..t.nodeCount |-> <<t.nodes[i - 1].key, t.nodes[i - 1].value>>]

\* Keys()
KeysVector(t) == [i \in 1..t.nodeCount |-> t.nodes[i - 1].key]

\* Values()
ValuesVector(t) == [i \in 1..t.nodeCount |-> t.nodes[i - 1].value]

----------------------------------------------------------------------------
(* Bulk deletes.  A condition is a side-effect-free predicate on           *)
(* (key, value), drawn from a small family.                                *)

ConditionsOver(maxKey) ==
    [kind : {"mod"}, d : 1..(maxKey + 1)] \cup [kind : {"value"}, d : Values]

Conditions == ConditionsOver(MaxKey)

\* condition(key, value)
Cond(c, key, value) ==
    IF c.kind = "mod" THEN key % c.d = 0 ELSE value = c.d

\* the pre-pass: [needToDelete, notToDeleteIndeices]
RECURSIVE PrePass(_, _, _, _, _)
PrePass(t, c, index, needToDelete, notToDeleteIndeices) ==
    IF index < t.nodeCount
    THEN IF Cond(c, t.nodes[index].key, t.nodes[index].value)
         THEN PrePass(t, c, index + 1, needToDelete + 1, notToDeleteIndeices)
         ELSE PrePass(t, c, index + 1, needToDelete, Append(notToDeleteIndeices, index))
    ELSE [needToDelete |-> needToDelete, notToDeleteIndeices |-> notToDeleteIndeices]

\* sparse tier, first loop: for(index=0;index<KeyCount();index++) if(condition) DeleteCore
\* returns [tree, deleted]
RECURSIVE SparseDirect(_, _, _, _)
SparseDirect(t, c, index, deleted) ==
    LET next(r) == SparseDirect(r.tree, c, ToIndexType(t.bitLength, index + 1),
                                IF r.ret THEN deleted + 1 ELSE deleted)
    IN  IF index < t.nodeCount
        THEN IF Cond(c, t.nodes[index].key, t.nodes[index].value)
             THEN next(DeleteCore(t, t.nodes[index].key))
             ELSE SparseDirect(t, c, ToIndexType(t.bitLength, index + 1), deleted)
        ELSE [tree |-> t, deleted |-> deleted]

\* the sparse tier without its second pass
SparseCollectNone(t, c, index, toDelete) == toDelete

\* sparse tier, toDelete: the keys of the slots that still satisfy the condition
RECURSIVE SparseCollect(_, _, _, _)
SparseCollect(t, c, index, toDelete) ==
    IF index < t.nodeCount
    THEN SparseCollect(t, c, index + 1,
                       IF Cond(c, t.nodes[index].key, t.nodes[index].value)
                       THEN Append(toDelete, t.nodes[index].key) ELSE toDelete)
    ELSE toDelete

\* sparse tier, last loop: for(key:toDelete) DeleteCore(key)
RECURSIVE SparseByKey(_, _, _, _)
SparseByKey(t, toDelete, n, deleted) ==
    LET next(r) == SparseByKey(r.tree, toDelete, n + 1,
                               IF r.ret THEN deleted + 1 ELSE deleted)
    IN  IF n <= Len(toDelete)
        THEN next(DeleteCore(t, toDelete[n]))
        ELSE [tree |-> t, deleted |-> deleted]

\* normalDelete: the in-order walk
RECURSIVE NormalDelete(_, _, _, _)
NormalDelete(t, c, index, deleted) ==
    LET \* index=IndexSmallestGraterThan(deletedKey);
        afterDelete(r, deletedKey) ==
            NormalDelete(r.tree, c, IndexSmallestGraterThan(r.tree, deletedKey),
                         IF r.ret THEN deleted + 1 ELSE deleted)
        \* the in-order successor of index
        successor == IF t.nodes[index].rightIndex # Nil(t)
                     THEN FollowLeft(t, t.nodes[index].rightIndex, t.nodeCount + 1)
                     ELSE ClimbFromRight(t, index, t.nodeCount + 1)
    IN  IF index # Nil(t)
        THEN IF Cond(c, t.nodes[index].key, t.nodes[index].value)
             THEN afterDelete(DeleteCore(t, t.nodes[index].key), t.nodes[index].key)
             ELSE NormalDelete(t, c, successor, deleted)
        ELSE [tree |-> t, deleted |-> deleted]

\* heavy tier: newTree.Insert of the first KeyCount()-needToDelete recorded slots
RECURSIVE Rebuild(_, _, _, _, _)
Rebuild(newTree, t, notToDeleteIndeices, index, count) ==
    IF index < count
    THEN Rebuild(Insert(newTree, t.nodes[notToDeleteIndeices[index + 1]].key,
                        t.nodes[notToDeleteIndeices[index + 1]].value).tree,
                 t, notToDeleteIndeices, index + 1, count)
    ELSE newTree

\* the branches taken with the two thresholds exchanged
DeleteRateTierExchanged(t, needToDelete, scratchOk) ==
    IF ~scratchOk THEN "normal"
    ELSE IF t.nodeCount # 0 /\ 2 * needToDelete < t.nodeCount THEN "sparse"
    ELSE IF t.nodeCount # 0 /\ 4 * needToDelete < t.nodeCount THEN "normal"
    ELSE "rebuild"

\* the branch chosen after the pre-pass: goto normalDelete when the scratch
\* malloc failed, else deleteRate<0.25, deleteRate<0.5, else; deleteRate is
\* double(needToDelete)/double(KeyCount()), and 0/0 is NaN and compares false
DeleteRateTier(t, needToDelete, scratchOk) ==
    IF ~scratchOk THEN "normal"
    ELSE IF t.nodeCount # 0 /\ 4 * needToDelete < t.nodeCount THEN "sparse"
    ELSE IF t.nodeCount # 0 /\ 2 * needToDelete < t.nodeCount THEN "normal"
    ELSE "rebuild"

\* returns [tree, deleted, tier]; scratchOk: malloc of notToDeleteIndeices
\* returned a non-null pointer
ConditionalDelete(t, c, scratchOk) ==
    LET pre == PrePass(t, c, 0, 0, <<>>)
        needToDelete == pre.needToDelete
        tier == DeleteRateTier(t, needToDelete, scratchOk)
        result(r) == [tree |-> r.tree, deleted |-> r.deleted, tier |-> tier]
        secondPass(d1) == SparseByKey(d1.tree, SparseCollect(d1.tree, c, 0, <<>>), 1,
                                      d1.deleted)
        rebuilt(newTree) == [tree |-> newTree,
                             deleted |-> t.nodeCount - newTree.nodeCount,
                             tier |-> tier]
    IN  CASE tier = "normal" -> result(NormalDelete(t, c, GetMinIndex(t), 0))
          [] tier = "sparse" -> result(secondPass(SparseDirect(t, c, 0, 0)))
          [] OTHER -> rebuilt(Rebuild(CreateSize(t.bitLength, t.size), t,
                                      pre.notToDeleteIndeices, 0,
                                      t.nodeCount - needToDelete))

\* a scan from the last live slot downwards
LastMatch(t, c, index) ==
    LET matching == {i \in index..(t.nodeCount - 1) :
                         Cond(c, t.nodes[i].key, t.nodes[i].value)}
    IN  IF matching = {} THEN t.nodeCount
        ELSE CHOOSE i \in matching : \A j \in matching : j <= i

\* the first slot whose pair satisfies the condition, or nodeCount
RECURSIVE FirstMatch(_, _, _)
FirstMatch(t, c, index) ==
    IF index < t.nodeCount /\ ~Cond(c, t.nodes[index].key, t.nodes[index].value)
    THEN FirstMatch(t, c, index + 1)
    ELSE index

\* returns [tree, deleted]
ConditionalDeleteOnce(t, c) ==
    LET index == FirstMatch(t, c, 0)
        result(r) == [tree |-> r.tree, deleted |-> IF r.ret THEN 1 ELSE 0]
    IN  IF index < t.nodeCount
        THEN result(Delete(t, t.nodes[index].key))
        ELSE [tree |-> t, deleted |-> 0]

----------------------------------------------------------------------------
(* Transform *)

\* a Transform that reports success without copying
TransformKeepsTarget(t, another) == [tree |-> t, ret |-> TRUE]

\* this->Transform(another): returns [tree, ret]
Transform(t, another) ==
    IF another.size <= t.size
    THEN [tree |-> Assign(t, another).tree, ret |-> TRUE]
    ELSE IF another.size < Nil(t)
         THEN [tree |-> Assign(CreateSize(t.bitLength, another.size), another).tree,
               ret |-> TRUE]
         ELSE [tree |-> t, ret |-> FALSE]

----------------------------------------------------------------------------
(* Structural predicates over a tree image *)

Live(t) == 0..(t.nodeCount - 1)

IsLive(t, i) == i \in DOMAIN t.nodes

Children(t, i) == {t.nodes[i].leftIndex, t.nodes[i].rightIndex} \ {Nil(t)}

\* slots reachable from the set s by at most n child steps (links that
\* leave the live region are not followed)
RECURSIVE Reach(_, _, _)
Reach(t, s, n) ==
    IF n = 0 THEN s
    ELSE LET s2 == s \cup UNION {Children(t, i) \cap DOMAIN t.nodes : i \in s}
         IN  IF s2 = s THEN s ELSE Reach(t, s2, n - 1)

Subtree(t, i) ==
    IF i = Nil(t) \/ ~IsLive(t, i) THEN {} ELSE Reach(t, {i}, t.nodeCount)

\* number of Black nodes on every path from slot i down to NIL, or -1 when
\* two paths differ or the links do not form a tree within fuel steps
RECURSIVE BlackHeight(_, _, _)
BlackHeight(t, i, fuel) ==
    IF i = Nil(t) THEN 0
    ELSE IF fuel = 0 \/ ~IsLive(t, i) THEN -1
    ELSE LET l == BlackHeight(t, t.nodes[i].leftIndex, fuel - 1)
             r == BlackHeight(t, t.nodes[i].rightIndex, fuel - 1)
         IN  IF l = -1 \/ r = -1 \/ l # r THEN -1
             ELSE l + (IF t.nodes[i].color = Black THEN 1 ELSE 0)

RedBlackColoring(t) ==
    t.nodeCount > 0 =>
        /\ IsLive(t, t.rootIndex)
        /\ t.nodes[t.rootIndex].color = Black
        /\ \A i \in DOMAIN t.nodes :
               t.nodes[i].color = Red =>
                   \A c \in Children(t, i) : IsLive(t, c) /\ t.nodes[c].color = Black
        /\ BlackHeight(t, t.rootIndex, t.nodeCount) # -1

BSTOrder(t) ==
    \A i \in DOMAIN t.nodes :
        /\ \A j \in Subtree(t, t.nodes[i].leftIndex) : t.nodes[j].key < t.nodes[i].key
        /\ \A j \in Subtree(t, t.nodes[i].rightIndex) : t.nodes[j].key > t.nodes[i].key

DistinctKeys(t) ==
    \A i, j \in DOMAIN t.nodes : i # j => t.nodes[i].key # t.nodes[j].key

ParentChildConsistent(t) ==
    \A i \in DOMAIN t.nodes :
        \A c \in Children(t, i) : IsLive(t, c) /\ t.nodes[c].fatherIndex = i

RootExclusive(t) ==
    LET roots == {i \in DOMAIN t.nodes : t.nodes[i].fatherIndex = Nil(t)}
    IN  IF t.nodeCount > 0 THEN roots = {t.rootIndex} ELSE roots = {}

NoDanglingLink(t) ==
    /\ \A i \in DOMAIN t.nodes :
           \A x \in {t.nodes[i].fatherIndex, t.nodes[i].leftIndex, t.nodes[i].rightIndex} :
               x # Nil(t) => x < t.nodeCount
    /\ t.nodeCount > 0 => t.rootIndex < t.nodeCount

Dense(t) ==
    /\ DOMAIN t.nodes = Live(t)
    /\ (IF t.nodeCount > 0 /\ IsLive(t, t.rootIndex)
        THEN Reach(t, {t.rootIndex}, t.nodeCount) ELSE {}) = Live(t)

----------------------------------------------------------------------------
(* The reference: a sorted map (std::map) driven by the same calls *)

MapPut(m, k, v) == [x \in DOMAIN m \cup {k} |-> IF x = k THEN v ELSE m[x]]

MapErase(m, ks) == [x \in DOMAIN m \ ks |-> m[x]]

EmptyMap == [x \in {} |-> 0]

\* the pairs held by the live slots
Pairs(t) == {<<t.nodes[i].key, t.nodes[i].value>> : i \in DOMAIN t.nodes}

MapPairs(m) == {<<k, m[k]>> : k \in DOMAIN m}

\* the keys of a map in increasing order
RECURSIVE SortedKeys(_)
SortedKeys(ks) ==
    IF ks = {} THEN <<>>
    ELSE LET m == CHOOSE x \in ks : \A y \in ks : x <= y
         IN  <<m>> \o SortedKeys(ks \ {m})

SortedPairs(m) == [n \in 1..Cardinality(DOMAIN m) |->
                      <<SortedKeys(DOMAIN m)[n], m[SortedKeys(DOMAIN m)[n]]>>]

WellFormed(t) ==
    /\ RedBlackColoring(t)
    /\ BSTOrder(t)
    /\ ParentChildConsistent(t)
    /\ RootExclusive(t)
    /\ NoDanglingLink(t)
    /\ Dense(t)

----------------------------------------------------------------------------
(* State: tree is the container under test, map the reference driven by    *)
(* the same calls, other a second container (source or target of           *)
(* Transform), last the latest call with its result, refused whether some  *)
(* Insert has returned false or some operator[] has thrown.                *)

Call(op, key, value, ret, cond, count, tier) ==
    [op |-> op, key |-> key, value |-> value, ret |-> ret, cond |-> cond,
     count |-> count, tier |-> tier]

NoCond == [kind |-> "mod", d |-> 1]

NoCall == Call("none", 0, 0, TRUE, NoCond, 0, "none")

InsertCall(k, v) ==
    LET returned(r) ==
            /\ tree' = r.tree
            /\ map' = MapPut(map, k, v)
            /\ last' = Call("Insert", k, v, r.ret, NoCond, 0, "none")
            /\ refused' = (refused \/ ~r.ret)
            /\ UNCHANGED other
    IN  returned(Insert(tree, k, v))

SubscriptCall(k, v) ==
    LET returned(r) ==
            /\ tree' = r.tree
            /\ map' = MapPut(map, k, v)
            /\ last' = Call("Subscript", k, v, r.ret, NoCond, 0, "none")
            /\ refused' = (refused \/ ~r.ret)
            /\ UNCHANGED other
    IN  returned(Subscript(tree, k, v))

DeleteCall(k) ==
    LET returned(r) ==
            /\ tree' = r.tree
            /\ map' = MapErase(map, {k})
            /\ last' = Call("Delete", k, 0, r.ret, NoCond, 0, "none")
            /\ UNCHANGED <<other, refused>>
    IN  returned(Delete(tree, k))

ConditionalDeleteCall(c, scratchOk) ==
    LET returned(r) ==
            /\ tree' = r.tree
            /\ map' = MapErase(map, {k \in DOMAIN map : Cond(c, k, map[k])})
            /\ last' = Call("ConditionalDelete", 0, 0, TRUE, c, r.deleted, r.tier)
            /\ UNCHANGED <<other, refused>>
    IN  returned(ConditionalDelete(tree, c, scratchOk))

ConditionalDeleteOnceCall(c) ==
    LET index == FirstMatch(tree, c, 0)
        returned(r) ==
            /\ tree' = r.tree
            /\ map' = IF index < tree.nodeCount
                      THEN MapErase(map, {tree.nodes[index].key})
                      ELSE map
            /\ last' = Call("ConditionalDeleteOnce", 0, 0, TRUE, c, r.deleted, "none")
            /\ UNCHANGED <<other, refused>>
    IN  returned(ConditionalDeleteOnce(tree, c))

----------------------------------------------------------------------------
(* Spec: every call with every key, value and condition of the bounds, on  *)
(* a 16-bit-index and a 32-bit-index tree of initial capacity 1.           *)

Init ==
    /\ \E w \in {16, 32} : tree = CreateSize(w, 1)
    /\ map = EmptyMap
    /\ other = CreateSize(16, 1)
    /\ last = NoCall
    /\ refused = FALSE

DoInsert == \E k \in Keys, v \in Values : InsertCall(k, v)

DoSubscript == \E k \in Keys, v \in Values : SubscriptCall(k, v)

DoDelete == \E k \in Keys : DeleteCall(k)

DoConditionalDelete ==
    \E c \in Conditions, scratchOk \in BOOLEAN : ConditionalDeleteCall(c, scratchOk)

DoConditionalDeleteOnce == \E c \in Conditions : ConditionalDeleteOnceCall(c)

Next ==
    \/ DoInsert
    \/ DoSubscript
    \/ DoDelete
    \/ DoConditionalDelete
    \/ DoConditionalDeleteOnce

Spec == Init /\ [][Next]_vars

----------------------------------------------------------------------------
(* SpecDeep: keys 1, 2, 3, ... inserted in increasing order up to          *)
(* MaxDeepKey, into a 16-bit-index tree (which fills up) and a             *)
(* 64-bit-index tree; deletes are called on trees of at most MaxKey nodes  *)
(* and on trees fewer than MaxDeepRemoved nodes short of MaxDeepKey.       *)

MaxDeepKey == 10

MaxDeepRemoved == 4

DeepKeys == 1..MaxDeepKey

DeepValue(k) == (k % MaxValue) + 1

DeepConditions == [kind : {"mod"}, d : 1..MaxDeepKey]

DeepReach == tree.nodeCount <= MaxKey \/ MaxDeepKey - tree.nodeCount < MaxDeepRemoved

InitDeep ==
    /\ \E w \in {16, 64} : tree = CreateSize(w, 1)
    /\ map = EmptyMap
    /\ other = CreateSize(16, 1)
    /\ last = NoCall
    /\ refused = FALSE

DeepInsert ==
    LET k == Cardinality(DOMAIN map) + 1
    IN  /\ DOMAIN map = 1..(k - 1)
        /\ k <= MaxDeepKey
        /\ InsertCall(k, DeepValue(k))

DeepSubscript ==
    LET k == Cardinality(DOMAIN map) + 1
    IN  /\ DOMAIN map = 1..(k - 1)
        /\ k <= MaxDeepKey
        /\ SubscriptCall(k, DeepValue(k))

DeepDelete ==
    /\ DeepReach
    /\ \E k \in DeepKeys : DeleteCall(k)

DeepConditionalDelete ==
    /\ DeepReach
    /\ \E c \in DeepConditions, scratchOk \in BOOLEAN :
           ConditionalDeleteCall(c, scratchOk)

DeepConditionalDeleteOnce ==
    /\ DeepReach
    /\ \E c \in DeepConditions : ConditionalDeleteOnceCall(c)

NextDeep ==
    \/ DeepInsert
    \/ DeepSubscript
    \/ DeepDelete
    \/ DeepConditionalDelete
    \/ DeepConditionalDeleteOnce

SpecDeep == InitDeep /\ [][NextDeep]_vars

----------------------------------------------------------------------------
(* SpecT: two containers of any two widths.  tree is filled by Insert and  *)
(* Delete, and each container can be made the target of a Transform from   *)
(* the other, or replaced by a freshly constructed one of another width.   *)
(* Insert and Delete follow links, so they are called on trees whose links *)
(* all lie in the live region.                                             *)

MaxTransformKey == 3

TransformKeys == 1..MaxTransformKey

Contents(t) == [k \in {t.nodes[i].key : i \in DOMAIN t.nodes} |->
                   (CHOOSE pr \in Pairs(t) : pr[1] = k)[2]]

InitT ==
    /\ \E w \in Widths : tree = CreateSize(w, 1)
    /\ \E w \in Widths : other = CreateSize(w, 1)
    /\ map = EmptyMap
    /\ last = NoCall
    /\ refused = FALSE

TInsert ==
    /\ WellFormed(tree)
    /\ \E k \in TransformKeys : InsertCall(k, DeepValue(k))

TDelete ==
    /\ WellFormed(tree)
    /\ \E k \in TransformKeys : DeleteCall(k)

TConstruct ==
    \E w \in Widths :
        /\ tree' = CreateSize(w, 1)
        /\ map' = EmptyMap
        /\ last' = Call("Construct", 0, 0, TRUE, NoCond, 0, "tree")
        /\ refused' = FALSE
        /\ UNCHANGED other

TConstructOther ==
    \E w \in Widths :
        /\ other' = CreateSize(w, 1)
        /\ last' = Call("Construct", 0, 0, TRUE, NoCond, 0, "other")
        /\ UNCHANGED <<tree, map, refused>>

\* other.Transform(tree)
TransformTo ==
    LET returned(r) ==
            /\ other' = r.tree
            /\ last' = Call("Transform", 0, 0, r.ret, NoCond, 0, "other")
            /\ UNCHANGED <<tree, map, refused>>
    IN  returned(Transform(other, tree))

\* tree.Transform(other)
TransformFrom ==
    LET returned(r) ==
            /\ tree' = r.tree
            /\ map' = IF r.ret THEN Contents(other) ELSE map
            /\ last' = Call("Transform", 0, 0, r.ret, NoCond, 0, "tree")
            /\ UNCHANGED <<other, refused>>
    IN  returned(Transform(tree, other))

NextT ==
    \/ TInsert
    \/ TDelete
    \/ TConstruct
    \/ TConstructOther
    \/ TransformTo
    \/ TransformFrom

SpecT == InitT /\ [][NextT]_vars

----------------------------------------------------------------------------
(* Claims C1 - C4: the invariants of the live region *)

Mutators == {"Insert", "Subscript", "Delete", "ConditionalDelete", "ConditionalDeleteOnce"}

\* C1: after every Insert, operator[] insertion, Delete, ConditionalDelete
\* and ConditionalDeleteOnce, starting from an empty tree, the root is
\* Black, no Red node has a Red child, and every path from the root down to
\* NIL holds the same number of Black nodes.
C1_RedBlackColoring ==
    last.op \in Mutators \cup {"none"} => RedBlackColoring(tree)

\* a Delete has removed a key of a tree that keeps seven or more nodes, some
\* of them Red
C1_Witness ==
    /\ last.op = "Delete"
    /\ last.ret
    /\ tree.nodeCount >= 7
    /\ \E i \in DOMAIN tree.nodes : tree.nodes[i].color = Red

\* C2: after any sequence of Insert, operator[], Delete and
\* ConditionalDelete every key of a node's left subtree is smaller and
\* every key of its right subtree is greater than the node's key, so no two
\* live slots hold equal keys; also after Delete has copied a successor's
\* or a child's key into the node.
C2_BSTOrder ==
    BSTOrder(tree) /\ DistinctKeys(tree)

\* Delete removed the key of a node with two children: the root now holds
\* the successor's key, which is greater than the deleted key, and still
\* has its left child, whose key is smaller than the deleted key
C2_Witness ==
    /\ last.op = "Delete"
    /\ last.ret
    /\ tree.nodeCount >= 2
    /\ LET root == tree.nodes[tree.rootIndex]
       IN  /\ root.leftIndex # Nil(tree)
           /\ tree.nodes[root.leftIndex].key < last.key
           /\ last.key < root.key

\* C3: after any sequence of mutating operations every child c of a live
\* node n has c.parent = n, and exactly one live slot has parent = NIL when
\* live_count > 0 (none when it is 0), that slot being root_index.
\* Stated of both containers, each the target of Transform.
C3_ParentChildRoot ==
    \A t \in {tree, other} : ParentChildConsistent(t) /\ RootExclusive(t)

\* C4: after any sequence of mutating operations the nodes reachable from
\* root_index are exactly the slots [0, live_count), and every non-NIL link
\* (and root_index when live_count > 0) is smaller than live_count.
\* Stated of both containers, each the target of Transform.
C4_DenseNoDangling ==
    \A t \in {tree, other} : Dense(t) /\ NoDanglingLink(t)

----------------------------------------------------------------------------
(* Claim C5: refinement of a sorted map *)

Refines(t, m) ==
    /\ t.nodeCount = Cardinality(DOMAIN m)
    /\ OrderedTraversal(t) = [pairs |-> SortedPairs(m), ended |-> TRUE, wild |-> FALSE]
    /\ \A n \in 1..(Len(OrderedTraversal(t).pairs) - 1) :
           OrderedTraversal(t).pairs[n][1] < OrderedTraversal(t).pairs[n + 1][1]

----------------------------------------------------------------------------
(* Claims C6 - C8: the laws of Insert, Delete and ConditionalDelete, each   *)
(* a property of the step from the tree before the call to the tree after  *)

KeysOf(t) == {t.nodes[i].key : i \in DOMAIN t.nodes}

Found(v) == [found |-> TRUE, value |-> v, wild |-> FALSE]

\* C6: Insert(k, v) that returns true is followed by Search(k) = v; Insert
\* of a key already present overwrites its value and leaves the size
\* unchanged; every other key keeps its Search result; and Search of a key
\* that was never inserted, the empty tree included, reports not found.
C6_InsertSearch ==
    /\ \A k \in Keys : Search(tree, k) = NotFound
    /\ [][/\ last'.op = "Insert" =>
              /\ last'.ret => Search(tree', last'.key) = Found(last'.value)
              /\ last'.key \in KeysOf(tree) =>
                     last'.ret /\ tree'.nodeCount = tree.nodeCount
              /\ \A k \in Keys \ {last'.key} : Search(tree', k) = Search(tree, k)
          /\ \A k \in Keys \ DOMAIN map' : Search(tree', k) = NotFound]_vars

\* an Insert returned true on a tree of three keys, and Search finds its
\* value
C6_Witness ==
    /\ last.op = "Insert"
    /\ last.ret
    /\ tree.nodeCount = 3
    /\ Search(tree, last.key) = Found(last.value)

\* C7: Delete(k) returns true exactly when k is present; then Search(k)
\* reports not found, the size drops by one and every other key keeps its
\* value; Delete of an absent key, the empty tree included, returns false
\* and leaves the tree unchanged.
C7_DeleteLaw ==
    [][last'.op = "Delete" =>
          /\ last'.ret = (last'.key \in KeysOf(tree))
          /\ last'.ret =>
                 /\ Search(tree', last'.key) = NotFound
                 /\ tree'.nodeCount = tree.nodeCount - 1
                 /\ \A k \in Keys \ {last'.key} : Search(tree', k) = Search(tree, k)
          /\ ~last'.ret => tree' = tree]_vars

\* a Delete returned true and left two keys
C7_Witness ==
    /\ last.op = "Delete"
    /\ last.ret
    /\ tree.nodeCount = 2
    /\ Search(tree, last.key) = NotFound

Matching(t, c) == {pr \in Pairs(t) : Cond(c, pr[1], pr[2])}

\* C8: ConditionalDelete, on any tree, with any predicate and any fraction
\* of matching pairs, returns the number of pairs that satisfied the
\* predicate before the call; afterwards no pair satisfies it, every other
\* pair is still present with its value, and the size has dropped by the
\* returned count.
C8_ConditionalDeleteLaw ==
    [][last'.op = "ConditionalDelete" =>
          /\ last'.count = Cardinality(Matching(tree, last'.cond))
          /\ Matching(tree', last'.cond) = {}
          /\ Pairs(tree') = Pairs(tree) \ Matching(tree, last'.cond)
          /\ tree'.nodeCount = tree.nodeCount - last'.count
          /\ \A pr \in Pairs(tree') : Search(tree', pr[1]) = Found(pr[2])]_vars

\* the tier for rare matches has removed two keys
C8_Witness ==
    /\ last.op = "ConditionalDelete"
    /\ last.tier = "sparse"
    /\ last.count = 2
    /\ Matching(tree, last.cond) = {}

----------------------------------------------------------------------------
(* Claims C9 and C10: Transform *)

Target == IF last.tier = "tree" THEN tree ELSE other

Source == IF last.tier = "tree" THEN other ELSE tree

Transformed == last.op = "Transform" /\ last.ret /\ WellFormed(Source)

Observed(r) == {[found |-> r.found, value |-> r.value]}

\* C9: after target.Transform(source) has returned true, for any pair of
\* widths, the target's ordered traversal equals the source's, and Search
\* on the target finds exactly the source's keys with the same values and
\* reports every other key not found.
C9_TransformPreserves ==
    Transformed =>
        /\ OrderedTraversal(Target) = OrderedTraversal(Source)
        /\ \A k \in 0..(MaxTransformKey + 1) :
               SearchOutcomes(Target, k) = Observed(Search(Source, k))

LinkMapped(target, source, x, y) ==
    IF y = Nil(source) THEN x = Nil(target) ELSE x = y

\* C10: Transform maps the source's NIL to the target's NIL and keeps every
\* other link's index, and the resulting tree satisfies parent/child
\* consistency, root exclusivity and no-dangling-link for the target's
\* width.
C10_TransformLinks ==
    Transformed =>
        /\ \A i \in DOMAIN Source.nodes :
               /\ LinkMapped(Target, Source, Target.nodes[i].fatherIndex, Source.nodes[i].fatherIndex)
               /\ LinkMapped(Target, Source, Target.nodes[i].leftIndex, Source.nodes[i].leftIndex)
               /\ LinkMapped(Target, Source, Target.nodes[i].rightIndex, Source.nodes[i].rightIndex)
        /\ ParentChildConsistent(Target)
        /\ RootExclusive(Target)
        /\ NoDanglingLink(Target)

----------------------------------------------------------------------------
(* Claim C11: the result of Transform *)

\* the container a Transform step wrote, before and after the step, and the
\* container it read
TargetBefore == IF last'.tier = "tree" THEN tree ELSE other

TargetAfter == IF last'.tier = "tree" THEN tree' ELSE other'

SourceBefore == IF last'.tier = "tree" THEN other ELSE tree

\* C11: Transform(source) returns false exactly when the source's KeyCount
\* exceeds the MaxNodeCount of the target's width; when it returns true the
\* target holds the source's pairs, whatever the two capacities; when it
\* returns false the target is unchanged.
C11_TransformResult ==
    [][last'.op = "Transform" =>
          /\ (~last'.ret) <=> (SourceBefore.nodeCount > MaxNodeCount(TargetBefore.bitLength))
          /\ last'.ret => /\ TargetAfter.nodeCount = SourceBefore.nodeCount
                          /\ Pairs(TargetAfter) = Pairs(SourceBefore)
          /\ (~last'.ret) => TargetAfter = TargetBefore]_vars

----------------------------------------------------------------------------
(* Capacity, backing image and ownership operations.  allocOk: malloc in   *)
(* CreateSize returned a non-null pointer.                                 *)

\* a constructor without the test of the size
ConstructAccepts(bitLength, size) == FALSE

\* RBTreeArray(size) throws out_of_range
ConstructThrows(bitLength, size) == size > MaxNodeCount(bitLength)

\* RBTreeArray(size) for size <= MaxNodeCount
Construct(bitLength, size) == CreateSize(bitLength, size)

\* the default array size: 256 in the source, scaled with the index widths
LeastNodeCount == 2

\* RBTreeArray(): RBTreeArray(LeastNodeCount)
DefaultConstruct(bitLength) == Construct(bitLength, LeastNodeCount)

\* a ReSize that installs the new allocation without moving the slots
ReSizeEmpty(t, size, allocOk) ==
    IF size < t.nodeCount
    THEN [tree |-> t, ret |-> FALSE, thrown |-> FALSE]
    ELSE IF size > Nil(t)
         THEN [tree |-> t, ret |-> FALSE, thrown |-> TRUE]
         ELSE IF allocOk
              THEN [tree |-> CreateSize(t.bitLength, size), ret |-> TRUE, thrown |-> FALSE]
              ELSE [tree |-> t, ret |-> FALSE, thrown |-> FALSE]

\* returns [tree, ret, thrown]
ReSize(t, size, allocOk) ==
    IF size < t.nodeCount
    THEN [tree |-> t, ret |-> FALSE, thrown |-> FALSE]
    ELSE IF size = t.size
         THEN [tree |-> t, ret |-> TRUE, thrown |-> FALSE]
         ELSE IF size > Nil(t)
              THEN [tree |-> t, ret |-> FALSE, thrown |-> TRUE]
              ELSE IF allocOk
                   THEN [tree |-> Assign(CreateSize(t.bitLength, size), t).tree,
                         ret |-> TRUE, thrown |-> FALSE]
                   ELSE [tree |-> t, ret |-> FALSE, thrown |-> FALSE]

MemoryShrink(t, allocOk) == ReSize(t, t.nodeCount, allocOk)

\* a Clear that releases the array and starts again from one slot
ClearReleases(t) == CreateSize(t.bitLength, 1)

\* Clear that leaves the NIL value in rootIndex
ClearRootNil(t) == [t EXCEPT !.nodeCount = 0, !.rootIndex = Nil(t), !.nodes = EmptyNodes]

Clear(t) == [t EXCEPT !.nodeCount = 0, !.rootIndex = 0, !.nodes = EmptyNodes]

\* Transform when CreateSize returns NULL: returns [tree, ret]
TransformOutOfMemory(t, another) ==
    IF another.size <= t.size
    THEN [tree |-> Assign(t, another).tree, ret |-> TRUE]
    ELSE [tree |-> t, ret |-> FALSE]

\* Insert and operator[] reach NodeCreate with nodeCount == size and
\* size != MaxNodeCount: the backing array is doubled first
MustGrow(t, key) ==
    /\ key \notin {t.nodes[i].key : i \in DOMAIN t.nodes}
    /\ t.nodeCount = t.size
    /\ t.size # Nil(t)

\* Insert when CreateSize returns NULL.  NodeCreate passes the null pointer
\* to Assign, which reads destination->size: the call has no defined
\* outcome (crashed), and no result reaches the caller.
\* returns [tree, ret, crashed]
InsertOutOfMemory(t, key, value) ==
    LET returned(r) == [tree |-> r.tree, ret |-> r.ret, crashed |-> FALSE]
    IN  IF MustGrow(t, key)
        THEN [tree |-> t, ret |-> FALSE, crashed |-> TRUE]
        ELSE returned(Insert(t, key, value))

\* operator[] when CreateSize returns NULL
SubscriptOutOfMemory(t, key, value) ==
    LET returned(r) == [tree |-> r.tree, ret |-> r.ret, crashed |-> FALSE]
    IN  IF MustGrow(t, key)
        THEN [tree |-> t, ret |-> FALSE, crashed |-> TRUE]
        ELSE returned(Subscript(t, key, value))

\* SetTree without the comparison of widths
SetTreeAnyWidth(t, another, aliased) ==
    IF aliased
    THEN [tree |-> t, ret |-> FALSE]
    ELSE [tree |-> another, ret |-> TRUE]

\* SetTree(another); aliased: another == tree, the image passed is the
\* tree's own backing.  returns [tree, ret]
SetTree(t, another, aliased) ==
    IF another.bitLength # t.bitLength
    THEN [tree |-> t, ret |-> FALSE]
    ELSE IF aliased
         THEN [tree |-> t, ret |-> FALSE]
         ELSE [tree |-> another, ret |-> TRUE]

SetTreeWithoutDestoryMyTree(t, another) ==
    IF another.bitLength # t.bitLength
    THEN [tree |-> t, ret |-> FALSE]
    ELSE [tree |-> another, ret |-> TRUE]

\* a byte count one slot short of the backing array
ByteSizeShort(t) == t.size - 1

\* sizeof(RBTree)+sizeof(Node)*ArraySize(), counted in slots after the header
ByteSize(t) == t.size

\* malloc(ByteSize()) and memcpy(copy, Data(), ByteSize()): the header and
\* the first ArraySize() slots (the live slots among them carry fields)
ByteCopy(t) ==
    [nodeCount |-> t.nodeCount,
     rootIndex |-> t.rootIndex,
     size      |-> t.size,
     bitLength |-> t.bitLength,
     nodes     |-> [i \in DOMAIN t.nodes \cap (0..(ByteSize(t) - 1)) |-> t.nodes[i]]]

\* RBTreeArray(const RBTreeArray& another): RBTreeArray(1), Transform(another)
CopyConstruct(another) == Transform(CreateSize(another.bitLength, 1), another).tree

\* operator=(const RBTreeArray& another) for this != &another
CopyAssign(t, another) == Transform(t, another).tree

\* operator=(RBTreeArray&&) without the reset of another
MoveAssignKeepsSource(t, another) ==
    [this    |-> SetTree(t, another, FALSE).tree,
     another |-> another]

\* operator=(RBTreeArray&& another) for this != &another:
\* SetTree(another.Data()); another.SetTreeWithoutDestoryMyTree(CreateSize(0));
\* returns [this, another]
MoveAssign(t, another) ==
    [this    |-> SetTree(t, another, FALSE).tree,
     another |-> SetTreeWithoutDestoryMyTree(another, CreateSize(another.bitLength, 0)).tree]

\* RBTreeArray(RBTreeArray&& another): RBTreeArray(1), then as operator=
MoveConstruct(another) == MoveAssign(CreateSize(another.bitLength, 1), another)

\* returns [ret, key, value, wild]; key and value are the caller's
\* variables, written only on success
GetMin(t, key, value) ==
    LET at(i) == IF i \in DOMAIN t.nodes
                 THEN [ret |-> TRUE, key |-> t.nodes[i].key,
                       value |-> t.nodes[i].value, wild |-> FALSE]
                 ELSE [ret |-> TRUE, key |-> key, value |-> value, wild |-> TRUE]
    IN  IF t.nodeCount = 0
        THEN [ret |-> FALSE, key |-> key, value |-> value, wild |-> FALSE]
        ELSE at(FollowLeft(t, t.rootIndex, t.nodeCount + 1))

GetMax(t, key, value) ==
    LET at(i) == IF i \in DOMAIN t.nodes
                 THEN [ret |-> TRUE, key |-> t.nodes[i].key,
                       value |-> t.nodes[i].value, wild |-> FALSE]
                 ELSE [ret |-> TRUE, key |-> key, value |-> value, wild |-> TRUE]
    IN  IF t.nodeCount = 0
        THEN [ret |-> FALSE, key |-> key, value |-> value, wild |-> FALSE]
        ELSE at(FollowRight(t, t.rootIndex, t.nodeCount + 1))

----------------------------------------------------------------------------
(* SpecO: one width at a time.  tree is mutated, resized, cleared, copied  *)
(* and moved into other, copied byte for byte into other and set back from *)
(* it; every allocating call is also made with malloc returning NULL.      *)
(* After a call that crashed no further call is made.                      *)

MaxBackingKey == 3

BackingKeys == 1..MaxBackingKey

BackingWidths == {16, 32}

BackingSizes == 0..(MaxNodeCount(16) + 1)

Alive == last.tier # "crash"

InitO ==
    /\ \E w \in BackingWidths : tree = Construct(w, 1)
    /\ \E w \in BackingWidths : other = Construct(w, 1)
    /\ map = EmptyMap
    /\ last = NoCall
    /\ refused = FALSE

OInsert ==
    /\ Alive
    /\ \E k \in BackingKeys : InsertCall(k, DeepValue(k))

ODelete ==
    /\ Alive
    /\ \E k \in BackingKeys : DeleteCall(k)

OInsertOutOfMemory ==
    LET returned(r, k) ==
            /\ tree' = r.tree
            /\ map' = IF r.crashed THEN map ELSE MapPut(map, k, DeepValue(k))
            /\ \E ret \in (IF r.crashed THEN BOOLEAN ELSE {r.ret}) :
                   last' = Call("Insert", k, DeepValue(k), ret, NoCond, 0,
                                IF r.crashed THEN "crash" ELSE "none")
            /\ refused' = (refused \/ ~r.ret)
            /\ UNCHANGED other
    IN  /\ Alive
        /\ \E k \in BackingKeys : returned(InsertOutOfMemory(tree, k, DeepValue(k)), k)

OSubscriptOutOfMemory ==
    LET returned(r, k) ==
            /\ tree' = r.tree
            /\ map' = IF r.crashed THEN map ELSE MapPut(map, k, DeepValue(k))
            /\ \E ret \in (IF r.crashed THEN BOOLEAN ELSE {r.ret}) :
                   last' = Call("Subscript", k, DeepValue(k), ret, NoCond, 0,
                                IF r.crashed THEN "crash" ELSE "none")
            /\ refused' = (refused \/ ~r.ret)
            /\ UNCHANGED other
    IN  /\ Alive
        /\ \E k \in BackingKeys : returned(SubscriptOutOfMemory(tree, k, DeepValue(k)), k)

\* the tier of a ReSize call: thrown, nomem (malloc was called and returned
\* NULL) or none
ReSizeTier(t, size, allocOk, r) ==
    IF r.thrown THEN "thrown"
    ELSE IF ~allocOk /\ size >= t.nodeCount /\ size # t.size THEN "nomem"
    ELSE "none"

OReSize ==
    LET returned(r, size, allocOk) ==
            /\ tree' = r.tree
            /\ last' = Call("ReSize", size, 0, r.ret, NoCond, 0,
                            ReSizeTier(tree, size, allocOk, r))
            /\ UNCHANGED <<map, other, refused>>
    IN  /\ Alive
        /\ \E size \in BackingSizes, allocOk \in BOOLEAN :
               returned(ReSize(tree, size, allocOk), size, allocOk)

OMemoryShrink ==
    LET returned(r, allocOk) ==
            /\ tree' = r.tree
            /\ last' = Call("MemoryShrink", tree.nodeCount, 0, r.ret, NoCond, 0,
                            ReSizeTier(tree, tree.nodeCount, allocOk, r))
            /\ UNCHANGED <<map, other, refused>>
    IN  /\ Alive
        /\ \E allocOk \in BOOLEAN : returned(MemoryShrink(tree, allocOk), allocOk)

OClear ==
    /\ Alive
    /\ tree' = Clear(tree)
    /\ map' = EmptyMap
    /\ last' = Call("Clear", 0, 0, TRUE, NoCond, 0, "none")
    /\ UNCHANGED <<other, refused>>

\* tree.Transform(other), same width, malloc returning NULL
OTransformOutOfMemory ==
    LET returned(r) ==
            /\ tree' = r.tree
            /\ map' = IF r.ret THEN Contents(other) ELSE map
            /\ last' = Call("Transform", 0, 0, r.ret, NoCond, 0,
                            IF other.size > tree.size /\ other.size < Nil(tree)
                            THEN "nomem" ELSE "none")
            /\ UNCHANGED <<other, refused>>
    IN  /\ Alive
        /\ other.bitLength = tree.bitLength
        /\ returned(TransformOutOfMemory(tree, other))

\* RBTreeArray other(tree)
OCopyConstruct ==
    /\ Alive
    /\ other' = CopyConstruct(tree)
    /\ last' = Call("CopyConstruct", 0, 0, TRUE, NoCond, 0, "other")
    /\ UNCHANGED <<tree, map, refused>>

\* other = tree
OCopyAssign ==
    /\ Alive
    /\ other.bitLength = tree.bitLength
    /\ other' = CopyAssign(other, tree)
    /\ last' = Call("CopyAssign", 0, 0, TRUE, NoCond, 0, "other")
    /\ UNCHANGED <<tree, map, refused>>

\* RBTreeArray other(std::move(tree))
OMoveConstruct ==
    LET moved(m) ==
            /\ other' = m.this
            /\ tree' = m.another
            /\ map' = EmptyMap
            /\ last' = Call("MoveConstruct", 0, 0, TRUE, NoCond, 0, "other")
            /\ UNCHANGED refused
    IN  /\ Alive
        /\ moved(MoveConstruct(tree))

\* other = std::move(tree)
OMoveAssign ==
    LET moved(m) ==
            /\ other' = m.this
            /\ tree' = m.another
            /\ map' = EmptyMap
            /\ last' = Call("MoveAssign", 0, 0, TRUE, NoCond, 0, "other")
            /\ UNCHANGED refused
    IN  /\ Alive
        /\ other.bitLength = tree.bitLength
        /\ moved(MoveAssign(other, tree))

\* other holds a byte copy of tree's backing image
OSnapshot ==
    /\ Alive
    /\ other' = ByteCopy(tree)
    /\ last' = Call("Snapshot", 0, 0, TRUE, NoCond, 0, "other")
    /\ UNCHANGED <<tree, map, refused>>

\* tree.SetTree(tree.Data()) (tier "self") and tree.SetTree(image) for the
\* image held by other (tier "other")
OSetTree ==
    LET returned(r, aliased) ==
            /\ tree' = r.tree
            /\ map' = IF r.ret THEN Contents(r.tree) ELSE map
            /\ last' = Call("SetTree", 0, 0, r.ret, NoCond, 0,
                            IF aliased THEN "self" ELSE "other")
            /\ UNCHANGED <<other, refused>>
    IN  /\ Alive
        /\ \E aliased \in BOOLEAN :
               returned(SetTree(tree, IF aliased THEN tree ELSE other, aliased), aliased)

\* a fresh container replaces tree, unless the constructor throws and
\* there is no new container; last.value is the index width of the class
OConstruct ==
    /\ Alive
    /\ \E w \in BackingWidths, size \in BackingSizes :
           IF ConstructThrows(w, size)
           THEN /\ last' = Call("Construct", size, w, FALSE, NoCond, 0, "thrown")
                /\ UNCHANGED <<tree, map, refused>>
           ELSE /\ tree' = Construct(w, size)
                /\ last' = Call("Construct", size, w, TRUE, NoCond, 0, "tree")
                /\ map' = EmptyMap
                /\ refused' = FALSE
    /\ UNCHANGED other

ODefaultConstruct ==
    /\ Alive
    /\ \E w \in BackingWidths :
           /\ tree' = DefaultConstruct(w)
           /\ last' = Call("DefaultConstruct", 0, w, TRUE, NoCond, 0, "tree")
    /\ map' = EmptyMap
    /\ refused' = FALSE
    /\ UNCHANGED other

OConstructOther ==
    /\ Alive
    /\ \E w \in BackingWidths :
           /\ other' = Construct(w, 1)
           /\ last' = Call("Construct", 1, w, TRUE, NoCond, 0, "other")
    /\ UNCHANGED <<tree, map, refused>>

NextO ==
    \/ OInsert
    \/ ODelete
    \/ OInsertOutOfMemory
    \/ OSubscriptOutOfMemory
    \/ OReSize
    \/ OMemoryShrink
    \/ OClear
    \/ OTransformOutOfMemory
    \/ OCopyConstruct
    \/ OCopyAssign
    \/ OMoveConstruct
    \/ OMoveAssign
    \/ OSnapshot
    \/ OSetTree
    \/ OConstruct
    \/ ODefaultConstruct
    \/ OConstructOther

SpecO == InitO /\ [][NextO]_vars

----------------------------------------------------------------------------
(* Claim C12: copies *)

Copies == {"CopyConstruct", "CopyAssign"}

\* C12: copy construction and copy assignment from any source (any live
\* count, any capacity up to MAX_COUNT) leave the source as it was and give
\* a tree with the source's size, key-value pairs and structure; a later
\* mutation of the source leaves the copy as it was.
C12_CopyEqualsSource ==
    [][/\ last'.op \in Copies =>
              /\ tree' = tree
              /\ other'.nodeCount = tree.nodeCount
              /\ Pairs(other') = Pairs(tree)
              /\ other'.rootIndex = tree.rootIndex
              /\ other'.nodes = tree.nodes
       /\ last'.op \in Mutators => other' = other]_vars

----------------------------------------------------------------------------
(* Claim C13: moves *)

Moves == {"MoveConstruct", "MoveAssign"}

----------------------------------------------------------------------------
(* SpecFull: a 16-bit-index tree offered more distinct keys than it can    *)
(* hold, in any order, present keys included.                              *)

MaxFullKey == 5

FullKeys == 1..MaxFullKey

FullValues == 1..MaxValue

SizeAvailable(t) == MaxNodeCount(t.bitLength) - t.nodeCount

InitFull ==
    /\ tree = Construct(16, 1)
    /\ other = Construct(16, 1)
    /\ map = EmptyMap
    /\ last = NoCall
    /\ refused = FALSE

FullInsert == \E k \in FullKeys, v \in FullValues : InsertCall(k, v)

FullDelete == \E k \in FullKeys : DeleteCall(k)

FullSubscript == \E k \in FullKeys, v \in FullValues : SubscriptCall(k, v)

NextFull ==
    \/ FullInsert
    \/ FullDelete
    \/ FullSubscript

SpecFull == InitFull /\ [][NextFull]_vars

(* Claim C14: the capacity limit of Insert *)

\* C14: Insert(k, v) returns false iff k is absent and the live count
\* already equals MAX_COUNT of the width; a present key is overwritten with
\* a true return even when the tree is full; an absent key is accepted
\* exactly while SizeAvailable() = MAX_COUNT - KeyCount() is positive and
\* each accepted one lowers it by one; when Insert returns false the tree
\* is unchanged.
C14_InsertCapacity ==
    [][last'.op = "Insert" =>
          /\ (~last'.ret) <=> /\ last'.key \notin KeysOf(tree)
                              /\ tree.nodeCount = MaxNodeCount(tree.bitLength)
          /\ last'.key \in KeysOf(tree) =>
                 /\ last'.ret
                 /\ <<last'.key, last'.value>> \in Pairs(tree')
                 /\ SizeAvailable(tree') = SizeAvailable(tree)
          /\ last'.key \notin KeysOf(tree) =>
                 /\ last'.ret <=> SizeAvailable(tree) > 0
                 /\ last'.ret => SizeAvailable(tree') = SizeAvailable(tree) - 1
          /\ (~last'.ret) => tree' = tree]_vars

\* a full tree has just overwritten a present key
C14_Witness ==
    /\ last.op = "Insert"
    /\ last.ret
    /\ refused
    /\ SizeAvailable(tree) = 0
    /\ \E pr \in Pairs(tree) : pr[1] = last.key /\ pr[2] = last.value /\ map[pr[1]] = pr[2]
    /\ Cardinality(DOMAIN map) > tree.nodeCount

----------------------------------------------------------------------------
(* Claim C15: allocation failure.  The calls in which malloc was called    *)
(* and returned NULL carry the tier "nomem" when the call returned and     *)
(* "crash" when it did not.                                                *)

AllocationFailed == last'.tier \in {"nomem", "crash"}

FailureReported == last'.tier = "nomem" /\ ~last'.ret

\* C15: when the allocation of the doubled backing array fails in Insert or
\* operator[], or the allocation inside ReSize, MemoryShrink or Transform
\* fails, the call returns a failure result to its caller and the tree
\* still holds its previous pairs with its previous capacity.
C15_AllocationFailureReported ==
    [][AllocationFailed =>
          /\ FailureReported
          /\ Pairs(tree') = Pairs(tree)
          /\ tree'.nodeCount = tree.nodeCount
          /\ tree'.size = tree.size]_vars

----------------------------------------------------------------------------
(* Claim C16: the header *)

HeaderBounds(t) ==
    /\ t.nodeCount <= t.size
    /\ t.size <= MaxNodeCount(t.bitLength)
    /\ MaxNodeCount(t.bitLength) \notin DOMAIN t.nodes
    /\ \A i \in DOMAIN t.nodes : i < t.size

\* C16: in every reachable state of a tree the live count is at most the
\* capacity and the capacity at most MAX_COUNT of the index width, no live
\* slot has the index MAX_COUNT, and the header's index width is the one
\* the container was constructed with: no call changes it, a Transform from
\* a tree of another width included.
C16_HeaderBounds ==
    /\ [](HeaderBounds(tree) /\ HeaderBounds(other))
    /\ [][/\ (last'.op # "Construct" \/ last'.tier # "tree") =>
                 tree'.bitLength = tree.bitLength
          /\ (last'.op # "Construct" \/ last'.tier # "other") =>
                 other'.bitLength = other.bitLength]_vars

\* a Transform between trees of two widths has succeeded
C16_Witness ==
    /\ last.op = "Transform"
    /\ last.ret
    /\ tree.bitLength # other.bitLength
    /\ tree.nodeCount = MaxTransformKey
    /\ other.nodeCount = tree.nodeCount

----------------------------------------------------------------------------
(* Claim C17: the root index of an empty tree *)

\* C17: in every reachable state rootIndex is NIL if and only if the live
\* count is 0 (a fresh tree, a tree after Clear, a tree whose last pair was
\* deleted, a moved-from tree), and every non-empty tree has a rootIndex
\* different from NIL.
C17_RootNilIffEmpty ==
    /\ (tree.rootIndex = Nil(tree)) <=> (tree.nodeCount = 0)
    /\ (other.rootIndex = Nil(other)) <=> (other.nodeCount = 0)

RootOfEmptyIsZero(t) ==
    /\ t.nodeCount = 0 => t.rootIndex = 0
    /\ t.nodeCount > 0 => /\ t.rootIndex # Nil(t)
                          /\ t.rootIndex \in DOMAIN t.nodes

\* C17 (amended): a tree with live count 0 has rootIndex 0, and a
\* non-empty tree has a rootIndex that is not NIL and names a live slot.
C17_RootOfEmptyIsZero == RootOfEmptyIsZero(tree) /\ RootOfEmptyIsZero(other)

\* the last pair of the tree has just been deleted
C17_Witness ==
    /\ last.op = "Delete"
    /\ last.ret
    /\ tree.nodeCount = 0
    /\ tree.rootIndex = 0
    /\ other.nodeCount > 0

----------------------------------------------------------------------------
(* Claim C18: SetTree *)

\* the image passed to the SetTree call of this step
ImagePassed == IF last'.tier = "self" THEN tree ELSE other

----------------------------------------------------------------------------
(* Claim C19: the byte copy of the backing image set back with SetTree *)

Reshapers == Mutators \cup {"Clear", "ReSize", "MemoryShrink"}

\* C19: a byte copy of the backing image (Data(), ByteSize()) of a tree in
\* any reachable state carries the tree's size, ordered traversal, values
\* and structure; mutations of the tree afterwards (deleting every key
\* included) leave the copy as it was; SetTree(copy) on the same tree or on
\* a fresh tree of the same width returns true and gives the tree the size,
\* ordered traversal, values and structural invariants of the copy.
C19_SetBackingRoundTrip ==
    [][/\ last'.op = "Snapshot" =>
              /\ other' = tree
              /\ other'.nodeCount = tree.nodeCount
              /\ OrderedTraversal(other') = OrderedTraversal(tree)
              /\ Pairs(other') = Pairs(tree)
       /\ last'.op \in Reshapers => other' = other
       /\ (/\ last'.op = "SetTree"
           /\ last'.tier = "other"
           /\ other.bitLength = tree.bitLength) =>
              /\ last'.ret
              /\ tree' = other
              /\ tree'.nodeCount = other.nodeCount
              /\ OrderedTraversal(tree') = OrderedTraversal(other)
              /\ Pairs(tree') = Pairs(other)
              /\ WellFormed(other) => WellFormed(tree')
              /\ map' = Contents(other)]_vars

\* SetTree has given the tree a full image held outside it
C19_Witness ==
    /\ last.op = "SetTree"
    /\ last.tier = "other"
    /\ last.ret
    /\ tree = other
    /\ tree.nodeCount = MaxBackingKey
    /\ tree.size = tree.nodeCount
    /\ WellFormed(tree)

----------------------------------------------------------------------------
(* Claim C20: GetMin and GetMax *)

\* the values the caller's key and value variables hold before the call
Outputs == {0, MaxValue + 1}

Smallest(S) == CHOOSE k \in S : \A j \in S : k <= j

Largest(S) == CHOOSE k \in S : \A j \in S : j <= k

Extreme(t, r, key, value, extreme) ==
    IF t.nodeCount = 0
    THEN /\ ~r.ret
         /\ r.key = key
         /\ r.value = value
    ELSE /\ r.ret
         /\ ~r.wild
         /\ r.key = extreme
         /\ <<r.key, r.value>> \in Pairs(t)

GetMinGetMax(t) ==
    \A key \in Outputs, value \in Outputs :
        /\ Extreme(t, GetMin(t, key, value), key, value, Smallest(KeysOf(t)))
        /\ Extreme(t, GetMax(t, key, value), key, value, Largest(KeysOf(t)))

\* C20: for any reachable tree, GetMin and GetMax return false on an empty
\* tree and leave their outputs untouched; on a non-empty tree they return
\* true with the smallest, respectively largest, live key and the value
\* bound to it.
C20_GetMinGetMax == GetMinGetMax(tree) /\ GetMinGetMax(other)

----------------------------------------------------------------------------
(* Claim C21: the neighbours of a query key *)

\* query keys: below, between, equal to and above the stored keys
Queries == 0..(MaxTransformKey + 1)

Neighbour(t, r, key, value, candidates, pick(_)) ==
    IF candidates = {}
    THEN /\ ~r.ret
         /\ r.key = key
         /\ r.value = value
    ELSE /\ r.ret
         /\ ~r.wild
         /\ r.key = pick(candidates)
         /\ <<r.key, r.value>> \in Pairs(t)

Neighbours(t) ==
    \A q \in Queries, key \in Outputs, value \in Outputs :
        /\ Neighbour(t, GetBiggestSmallerThan(t, q, key, value), key, value,
                     {k \in KeysOf(t) : k < q}, Largest)
        /\ Neighbour(t, GetSmallestGraterThan(t, q, key, value), key, value,
                     {k \in KeysOf(t) : k > q}, Smallest)

\* C21: for any reachable tree and any query key q, present or absent,
\* GetBiggestSmallerThan(q) returns true with the largest live key strictly
\* less than q and its value, or false if no live key is below q;
\* GetSmallestGraterThan(q) returns true with the smallest live key strictly
\* greater than q and its value, or false if there is none; q itself is
\* never returned.
C21_Neighbours == Neighbours(tree) /\ Neighbours(other)

----------------------------------------------------------------------------
(* Claim C22: operator[] *)

\* the step tree -> after is tree[key] = value with the result r of
\* operator[]; r.index is the slot the returned reference denotes
SubscriptEffect(t, after, r, key, value) ==
    /\ after = r.tree
    /\ key \in KeysOf(t) =>
           /\ r.ret
           /\ t.nodes[r.index].key = key
           /\ after = [t EXCEPT !.nodes[r.index].value = value]
    /\ (key \notin KeysOf(t) /\ t.nodeCount < MaxNodeCount(t.bitLength)) =>
           /\ r.ret
           /\ after.nodeCount = t.nodeCount + 1
           /\ r.index = t.nodeCount
           /\ after.nodes[r.index].key = key
           /\ after.nodes[r.index].value = value
           /\ Pairs(after) = Pairs(t) \cup {<<key, value>>}
           /\ \A i \in DOMAIN t.nodes : /\ after.nodes[i].key = t.nodes[i].key
                                        /\ after.nodes[i].value = t.nodes[i].value
           /\ WellFormed(after)
    /\ (key \notin KeysOf(t) /\ t.nodeCount = MaxNodeCount(t.bitLength)) =>
           /\ ~r.ret
           /\ after = t

\* C22: operator[](k) returns a reference to the value bound to k: for a
\* present k the tree is unchanged and the reference denotes k's existing
\* value; for an absent k below MAX_COUNT exactly one pair for k is
\* inserted (size + 1, invariants restored) and the reference denotes the
\* new pair's value slot after the fixup has rotated; for an absent k at
\* MAX_COUNT the call fails with out_of_range and the tree is unchanged.
C22_SubscriptReference ==
    [][last'.op = "Subscript" =>
          SubscriptEffect(tree, tree', Subscript(tree, last'.key, last'.value),
                          last'.key, last'.value)]_vars

\* operator[] has created a leaf that the fixup rotated away from the leaf
\* level: the new key is the root
C22_Witness ==
    /\ last.op = "Subscript"
    /\ last.ret
    /\ tree.nodeCount = MaxNodeCount(tree.bitLength)
    /\ tree.nodes[tree.rootIndex].key = last.key
    /\ tree.rootIndex = tree.nodeCount - 1
    /\ tree.nodes[tree.rootIndex].value = last.value

----------------------------------------------------------------------------
(* Claim C23: the transitions of the ordered cursor *)

At(i) == [currentIndex |-> i, reachedBegin |-> FALSE, reachedEnd |-> FALSE]

BeforeBegin(t) == [currentIndex |-> Nil(t), reachedBegin |-> TRUE, reachedEnd |-> FALSE]

\* the slot holding key k
SlotOf(t, k) == CHOOSE i \in DOMAIN t.nodes : t.nodes[i].key = k

LargerThan(t, i) == {k \in KeysOf(t) : k > t.nodes[i].key}

SmallerThan(t, i) == {k \in KeysOf(t) : k < t.nodes[i].key}

OrderedTransitions(t) ==
    IF t.nodeCount = 0
    THEN /\ OrderedBegin(t) = OrderedEnd(t)
         /\ \A it \in {OrderedEnd(t), BeforeBegin(t)} :
                /\ OrderedIncrement(t, it) = it
                /\ OrderedDecrement(t, it) = it
    ELSE /\ \A i \in DOMAIN t.nodes :
                /\ OrderedIncrement(t, At(i)) =
                       IF LargerThan(t, i) = {} THEN OrderedEnd(t)
                       ELSE At(SlotOf(t, Smallest(LargerThan(t, i))))
                /\ OrderedDecrement(t, At(i)) =
                       IF SmallerThan(t, i) = {} THEN BeforeBegin(t)
                       ELSE At(SlotOf(t, Largest(SmallerThan(t, i))))
         /\ OrderedIncrement(t, BeforeBegin(t)) = At(SlotOf(t, Smallest(KeysOf(t))))
         /\ OrderedDecrement(t, OrderedEnd(t)) = At(SlotOf(t, Largest(KeysOf(t))))
         /\ OrderedIncrement(t, OrderedEnd(t)) = OrderedEnd(t)
         /\ OrderedDecrement(t, BeforeBegin(t)) = BeforeBegin(t)
         /\ OrderedBegin(t) = At(SlotOf(t, Smallest(KeysOf(t))))

\* C23: on a non-empty tree, advance from a live node moves to the node
\* with the next larger key or sets after-end at the maximum; retreat moves
\* to the next smaller key or sets before-begin at the minimum; advance
\* from before-begin jumps to the minimum and retreat from after-end to the
\* maximum; advance at after-end and retreat at before-begin change
\* nothing.  On an empty tree OrderedBegin() = OrderedEnd() and advance and
\* retreat do nothing.
C23_OrderedTransitions == OrderedTransitions(tree) /\ OrderedTransitions(other)

----------------------------------------------------------------------------
(* Claim C24: equality of cursors *)

Headers == {"tree", "other"}

Backing(header) == IF header = "tree" THEN tree ELSE other

\* the cursors reached from a set of cursors by at most fuel advances and
\* retreats
RECURSIVE CursorsFrom(_, _, _, _, _)
CursorsFrom(t, S, Advance(_, _), Retreat(_, _), fuel) ==
    IF fuel = 0 THEN S
    ELSE CursorsFrom(t, S \cup {Advance(t, it) : it \in S} \cup {Retreat(t, it) : it \in S},
                     Advance, Retreat, fuel - 1)

OrderedCursors(t) ==
    CursorsFrom(t, {OrderedBegin(t), OrderedEnd(t)}, OrderedIncrement, OrderedDecrement,
                t.nodeCount + 2)

UnorderedCursors(t) ==
    CursorsFrom(t, {UnorderedBegin(t), UnorderedEnd(t)}, UnorderedIncrement,
                UnorderedDecrement, t.nodeCount + 2)

\* same header, same slot index, same sticky flags
SameCursor(header, it, anotherHeader, another) ==
    anotherHeader = header /\ another = it

\* C24: for both cursor kinds, ordered and unordered, two cursors compare
\* equal if and only if they share the same header, the same slot index
\* and the same sticky flags; a cursor whose before-begin flag is set never
\* compares equal to a cursor at the same index whose flag is clear.
C24_CursorEquality ==
    \A h \in Headers, g \in Headers :
        /\ \A it \in OrderedCursors(Backing(h)), another \in OrderedCursors(Backing(g)) :
               OrderedEqual(h, it, g, another) <=> SameCursor(h, it, g, another)
        /\ \A it \in UnorderedCursors(Backing(h)), another \in UnorderedCursors(Backing(g)) :
               UnorderedEqual(h, it, g, another) <=> SameCursor(h, it, g, another)

----------------------------------------------------------------------------
(* SpecSlots: a 32-bit-index tree filled in increasing key order up to its *)
(* MAX_COUNT and beyond, with the deletes of SpecDeep.                     *)

InitSlots ==
    /\ tree = Construct(32, 1)
    /\ other = Construct(32, 1)
    /\ map = EmptyMap
    /\ last = NoCall
    /\ refused = FALSE

NextSlots ==
    \/ DeepInsert
    \/ DeepDelete

SpecSlots == InitSlots /\ [][NextSlots]_vars

(* Claim C25: unordered enumeration *)

RECURSIVE AdvanceTimes(_, _, _)
AdvanceTimes(t, it, n) ==
    IF n = 0 THEN it ELSE AdvanceTimes(t, UnorderedIncrement(t, it), n - 1)

UnorderedAt(i) == [currentIndex |-> i, reachedBegin |-> FALSE]

SlotOrder(t) ==
    /\ \A n \in 0..t.nodeCount : AdvanceTimes(t, UnorderedBegin(t), n) = UnorderedAt(n)
    /\ UnorderedEnd(t) = UnorderedAt(t.nodeCount)
    /\ DOMAIN t.nodes = 0..(t.nodeCount - 1)
    /\ Cardinality(Pairs(t)) = t.nodeCount
    /\ Len(KeysValues(t)) = t.nodeCount
    /\ Len(KeysVector(t)) = t.nodeCount
    /\ Len(ValuesVector(t)) = t.nodeCount
    /\ \A i \in 1..t.nodeCount :
           /\ KeysValues(t)[i] = <<t.nodes[i - 1].key, t.nodes[i - 1].value>>
           /\ KeysVector(t)[i] = t.nodes[i - 1].key
           /\ ValuesVector(t)[i] = t.nodes[i - 1].value
    /\ UnorderedIncrement(t, UnorderedEnd(t)) = UnorderedEnd(t)
    /\ t.nodeCount > 0 =>
           /\ UnorderedDecrement(t, UnorderedAt(0)).reachedBegin
           /\ UnorderedDecrement(t, UnorderedDecrement(t, UnorderedAt(0))) =
                  UnorderedDecrement(t, UnorderedAt(0))

\* C25: unordered enumeration is slot order: advancing an unordered cursor
\* from begin() reaches end() (index = live count) after exactly live count
\* steps, visiting slots 0, 1, ..., live count - 1 and so every live pair
\* once; Keys(), Values() and KeysValues() have length KeyCount() and the
\* same slot order; advancing at end() is a no-op; retreating at slot 0
\* sets the before-begin flag, after which further retreats do nothing.
C25_SlotOrder == SlotOrder(tree) /\ SlotOrder(other)

----------------------------------------------------------------------------
(* Claim C26: ConditionalDeleteOnce *)

\* the live slots of t whose pair satisfies the condition
MatchingSlots(t, c) == {i \in 0..(t.nodeCount - 1) : Cond(c, t.nodes[i].key, t.nodes[i].value)}

FirstSlot(S) == CHOOSE i \in S : \A j \in S : i <= j

DeleteOnceEffect(t, after, c, deleted) ==
    /\ deleted \in {0, 1}
    /\ MatchingSlots(t, c) = {} => deleted = 0 /\ after = t
    /\ MatchingSlots(t, c) # {} =>
           /\ deleted = 1
           /\ after.nodeCount = t.nodeCount - 1
           /\ Pairs(after) = Pairs(t) \ {<<t.nodes[FirstSlot(MatchingSlots(t, c))].key,
                                            t.nodes[FirstSlot(MatchingSlots(t, c))].value>>}
           /\ WellFormed(after)

\* C26: ConditionalDeleteOnce(pred) deletes only the pair of the first live
\* slot, in increasing slot order, whose pair satisfies pred: it returns 1
\* and the tree loses exactly that pair if some live pair satisfies pred,
\* returns 0 and leaves the tree unchanged if none does, and never deletes
\* more than one pair.
C26_DeleteOnce ==
    [][last'.op = "ConditionalDeleteOnce" =>
           DeleteOnceEffect(tree, tree', last'.cond, last'.count)]_vars

\* a call that deleted one pair of several that satisfy the condition
C26_Witness ==
    /\ last.op = "ConditionalDeleteOnce"
    /\ last.count = 1
    /\ MatchingSlots(tree, last.cond) # {}

----------------------------------------------------------------------------
(* Claim C27: ReSize and MemoryShrink *)

AtLeastOne(n) == IF n = 0 THEN 1 ELSE n

\* every live slot of t is in after with its key, value, links and colour
SlotsPreserved(t, after) ==
    /\ after.bitLength = t.bitLength
    /\ after.nodeCount = t.nodeCount
    /\ after.rootIndex = t.rootIndex
    /\ after.nodes = t.nodes
    /\ \A k \in 0..(MaxKey + 1) : Search(after, k) = Search(t, k)
    /\ OrderedTraversal(after) = OrderedTraversal(t)
    /\ KeysValues(after) = KeysValues(t)

\* C27: ReSize(n) with live_count <= n <= MAX_COUNT, its allocation
\* succeeding, returns true and leaves capacity = max(n, 1); MemoryShrink()
\* leaves capacity = max(live_count, 1); both keep every live pair in its
\* slot with its links and colour, so that the size, the results of Search,
\* the ordered traversal and the slot order are unchanged.
C27_ReSizePreserves ==
    [][/\ (/\ last'.op = "ReSize"
           /\ last'.tier = "none"
           /\ tree.nodeCount <= last'.key
           /\ last'.key <= MaxNodeCount(tree.bitLength)) =>
              /\ last'.ret
              /\ tree'.size = AtLeastOne(last'.key)
              /\ SlotsPreserved(tree, tree')
       /\ (last'.op = "MemoryShrink" /\ last'.tier = "none") =>
              /\ last'.ret
              /\ tree'.size = AtLeastOne(tree.nodeCount)
              /\ SlotsPreserved(tree, tree')]_vars

\* a tree of two pairs after a ReSize to a capacity no doubling gives
C27_Witness ==
    /\ last.op = "ReSize"
    /\ last.ret
    /\ last.key = 3
    /\ tree.bitLength = 32
    /\ tree.nodeCount = 2
    /\ tree.size = 3

----------------------------------------------------------------------------
(* Claim C28: capacity errors *)

----------------------------------------------------------------------------
(* Claim C29: the capacity of a constructed tree *)

\* the new container has the class's width, no pair and the given capacity
FreshWith(t, bitLength, size) ==
    /\ t.bitLength = bitLength
    /\ t.nodeCount = 0
    /\ t.size = size

\* the parts on the default constructor and on requests up to the maximum
ConstructedWithin ==
    [][/\ last'.op = "DefaultConstruct" =>
              FreshWith(tree', last'.value, LeastNodeCount)
       /\ (/\ last'.op = "Construct"
           /\ last'.key >= 1
           /\ last'.key <= MaxNodeCount(last'.value)) =>
              /\ last'.tier \in {"tree", "other"}
              /\ FreshWith(IF last'.tier = "other" THEN other' ELSE tree',
                           last'.value, last'.key)]_vars

\* C29: a default-constructed tree has the default capacity (256) and live
\* count 0; a tree constructed with a requested size s >= 1 has capacity s
\* when s is below the maximum of the width, and for s greater than or
\* equal to that maximum the constructor creates a tree whose capacity is
\* the maximum.
C29_ConstructedCapacity ==
    /\ ConstructedWithin
    /\ [][(last'.op = "Construct" /\ last'.key >= MaxNodeCount(last'.value)) =>
              /\ last'.tier = "tree"
              /\ FreshWith(tree', last'.value, MaxNodeCount(last'.value))]_vars

----------------------------------------------------------------------------
(* Claim C30: Clear *)

\* the tree reached from t by inserting the keys of a sequence in turn
RECURSIVE InsertAll(_, _)
InsertAll(t, keys) ==
    IF keys = <<>> THEN t
    ELSE InsertAll(Insert(t, Head(keys), DeepValue(Head(keys))).tree, Tail(keys))

InsertSequences == {<<>>} \cup {<<k>> : k \in BackingKeys} \cup (BackingKeys \X BackingKeys)

Cleared(t, after) ==
    /\ after.nodeCount = 0
    /\ after.size = t.size
    /\ after.bitLength = t.bitLength
    /\ \A k \in 0..(MaxBackingKey + 1) : ~Search(after, k).found
    /\ \A k \in Outputs, v \in Outputs :
           /\ ~GetMin(after, k, v).ret
           /\ ~GetMax(after, k, v).ret
    /\ OrderedEqual("tree", OrderedBegin(after), "tree", OrderedEnd(after))
    /\ UnorderedEqual("tree", UnorderedBegin(after), "tree", UnorderedEnd(after))
    /\ UnorderedBegin(after) = UnorderedEnd(after)
    /\ after = Construct(t.bitLength, t.size)
    /\ \A keys \in InsertSequences :
           InsertAll(after, keys) = InsertAll(Construct(t.bitLength, t.size), keys)

\* C30: after Clear() the live count is 0, the capacity is the one before
\* the call, Search of every key reports not found, GetMin and GetMax
\* return false, begin() equals end(), and Inserts that follow behave as
\* on a freshly constructed empty tree of that capacity.
C30_Clear ==
    [][last'.op = "Clear" => Cleared(tree, tree')]_vars

\* a Clear of a tree whose capacity is not the one it was constructed with
C30_Witness ==
    /\ last.op = "Clear"
    /\ tree.nodeCount = 0
    /\ tree.size = 4

----------------------------------------------------------------------------
(* Claim C31: Transform laws *)

\* t.Transform(t)
SelfTransform(t) ==
    /\ Transform(t, t).ret
    /\ Transform(t, t).tree = t

\* a.Transform(b); b.Transform(a)
BackAndForth(a, b) ==
    LET second(a1, r) ==
            r.ret => /\ Pairs(a1) = Pairs(b)
                     /\ Pairs(r.tree) = Pairs(b)
                     /\ a1.nodeCount = b.nodeCount
                     /\ r.tree.nodeCount = b.nodeCount
        first(r) == r.ret => second(r.tree, Transform(b, r.tree))
    IN  first(Transform(a, b))

\* C31: t.Transform(t) leaves the contents, the size and the structure of t
\* unchanged; for trees a and b of any widths for which both calls succeed,
\* after a.Transform(b) followed by b.Transform(a) the trees a and b hold
\* equal contents, the pairs b held at the start.
C31_TransformLaws ==
    /\ SelfTransform(tree)
    /\ SelfTransform(other)
    /\ BackAndForth(tree, other)
    /\ BackAndForth(other, tree)

\* tree.Transform(other) then other.Transform(tree) between two widths on
\* two or more pairs
C31_Witness ==
    /\ last.op = "Transform"
    /\ last.tier = "other"
    /\ last.ret
    /\ tree.bitLength # other.bitLength
    /\ tree.nodeCount >= 2
    /\ Pairs(tree) = Pairs(other)
    /\ Transform(tree, other).ret
    /\ Transform(other, Transform(tree, other).tree).ret

----------------------------------------------------------------------------
(* Claim C32: the compaction step of Delete *)

\* the live slots without children that are not the root: the slots
\* DeleteNode is called on
Leaves(t) ==
    {d \in DOMAIN t.nodes : /\ d # t.rootIndex
                            /\ t.nodes[d].leftIndex = Nil(t)
                            /\ t.nodes[d].rightIndex = Nil(t)}

\* t with the link of d's father to d cut
Unlinked(t, d) ==
    LET f == t.nodes[d].fatherIndex
    IN  IF t.nodes[f].leftIndex = d
        THEN [t EXCEPT !.nodes[f].leftIndex = Nil(t)]
        ELSE [t EXCEPT !.nodes[f].rightIndex = Nil(t)]

MovedTo(m, d, x) == IF x = m THEN d ELSE x

\* DeleteNode on leaf d of t: u is t with d unlinked, after the result
Compacted(t, u, after, d) ==
    LET n == t.nodeCount
        m == t.nodeCount - 1
    IN  /\ after.nodeCount = n - 1
        /\ DOMAIN after.nodes = 0..(n - 2)
        /\ d = m => /\ after.rootIndex = u.rootIndex
                     /\ \A i \in 0..(n - 2) : after.nodes[i] = u.nodes[i]
        /\ d # m =>
               /\ after.nodes[d] = u.nodes[m]
               /\ IF u.rootIndex = m
                  THEN after.rootIndex = d
                  ELSE /\ after.rootIndex = u.rootIndex
                       /\ IF u.nodes[u.nodes[m].fatherIndex].leftIndex = m
                          THEN after.nodes[MovedTo(m, d, u.nodes[m].fatherIndex)].leftIndex = d
                          ELSE after.nodes[MovedTo(m, d, u.nodes[m].fatherIndex)].rightIndex = d
               /\ u.nodes[m].leftIndex # Nil(u) =>
                      after.nodes[u.nodes[m].leftIndex].fatherIndex = d
               /\ u.nodes[m].rightIndex # Nil(u) =>
                      after.nodes[u.nodes[m].rightIndex].fatherIndex = d
               /\ \A i \in 0..(n - 2) :
                      i # d =>
                          /\ after.nodes[i].key = u.nodes[i].key
                          /\ after.nodes[i].value = u.nodes[i].value
                          /\ after.nodes[i].color = u.nodes[i].color
                          /\ after.nodes[i].fatherIndex = MovedTo(m, d, u.nodes[i].fatherIndex)
                          /\ after.nodes[i].leftIndex = MovedTo(m, d, u.nodes[i].leftIndex)
                          /\ after.nodes[i].rightIndex = MovedTo(m, d, u.nodes[i].rightIndex)

CompactionStep(t) ==
    \A d \in Leaves(t) :
        Compacted(t, Unlinked(t, d),
                  DeleteNode(t, t.nodes[d].fatherIndex, d,
                             [f |-> t.nodes[d].fatherIndex, b |-> Nil(t), g |-> Nil(t)]).tree,
                  d)

\* the slots a Delete of the key in slot cur overwrites with the pair of
\* the successor (gotoRightSmallest) or of an only child
Receivers(t, cur) ==
    {cur} \cup IF t.nodes[cur].leftIndex # Nil(t) /\ t.nodes[cur].rightIndex # Nil(t)
               THEN {LeftMost(t, t.nodes[cur].rightIndex)}
               ELSE {}

\* a Delete that returned true on n >= 2 pairs: cur held the key, d was
\* unlinked
DeleteSlots(t, after, cur, d) ==
    LET n == t.nodeCount
    IN  /\ d \in DOMAIN t.nodes
        /\ after.nodeCount = n - 1
        /\ \A i \in 0..(n - 2) :
               (i # d /\ i \notin Receivers(t, cur)) =>
                   /\ after.nodes[i].key = t.nodes[i].key
                   /\ after.nodes[i].value = t.nodes[i].value
        /\ (d # n - 1 /\ (n - 1) \notin Receivers(t, cur)) =>
               /\ after.nodes[d].key = t.nodes[n - 1].key
               /\ after.nodes[d].value = t.nodes[n - 1].value

\* C32: when a present key is deleted from a tree of n >= 2 pairs and the
\* unlinked slot d is not n-1, the pair, links and colour that were in
\* slot n-1 are afterwards in slot d, the matching child link of that
\* element's parent (or rootIndex if it was the root) names d, its
\* children's parent links name d, and the live count is n-1; apart from
\* slot d and the slot that received the successor's or child's pair no
\* live slot's key changes.
C32_Compaction ==
    /\ [](WellFormed(tree) => CompactionStep(tree))
    /\ [][(last'.op = "Delete" /\ last'.ret /\ tree.nodeCount >= 2) =>
              DeleteSlots(tree, tree',
                          Descend(tree, tree.rootIndex, last'.key),
                          DeleteCore(tree, last'.key).deleteIndex)]_vars

\* Delete(1) on the keys 1, 2, 3 inserted in this order: slot 0 is
\* unlinked and the pair of slot 2 is moved into it
C32_Witness ==
    /\ last.op = "Delete"
    /\ last.key = 1
    /\ last.ret
    /\ tree.nodeCount = 2
    /\ tree.nodes[0].key = 3
    /\ tree.nodes[1].key = 2

----------------------------------------------------------------------------
(* Claim C33: the fixup's indices across the compaction *)

\* doubleBlackFix up to its call of DeleteNode on the Black leaf c with
\* father f: a Red brother is rotated away first.  [tree, loc]
RECURSIVE RemovalPoint(_, _, _)
RemovalPoint(t, c, f) ==
    LET isLeft == t.nodes[f].leftIndex = c
        b == IF isLeft THEN t.nodes[f].rightIndex ELSE t.nodes[f].leftIndex
        loc1 == [f |-> f, b |-> b, g |-> t.nodes[f].fatherIndex]
    IN  IF t.nodes[b].color = Black
        THEN [tree |-> t, loc |-> loc1]
        ELSE RemovalPoint(IF isLeft THEN DeleteRedBrotherRight(t, loc1)
                                    ELSE DeleteRedBrotherLeft(t, loc1), c, f)

BlackLeaves(t) == {c \in Leaves(t) : t.nodes[c].color = Black}

Relatives == {"f", "b", "g"}

\* x, loc: the tree and the indices at the call of DeleteNode on c; r: what
\* the call returns
IndicesFollow(x, loc, c, r) ==
    /\ loc.f # loc.b
    /\ loc.f # loc.g
    /\ loc.b # loc.g
    /\ \A name \in Relatives :
           IF loc[name] = Nil(x)
           THEN r.loc[name] = Nil(x)
           ELSE /\ r.loc[name] < r.tree.nodeCount
                /\ r.loc[name] \in DOMAIN r.tree.nodes
                /\ r.tree.nodes[r.loc[name]].key = x.nodes[loc[name]].key
                /\ r.loc[name] = MovedTo(x.nodeCount - 1, c, loc[name])

FixupIndices(t) ==
    \A c \in BlackLeaves(t) :
        LET follows(p) == IndicesFollow(p.tree, p.loc, c,
                                        DeleteNode(p.tree, p.loc.f, c, p.loc))
        IN  follows(RemovalPoint(t, c, t.nodes[c].fatherIndex))

\* the relatives of c that stand in the last slot when c is removed
MovedRelatives(t, c) ==
    LET moved(p) == {name \in Relatives : /\ c # t.nodeCount - 1
                                          /\ p.loc[name] = t.nodeCount - 1}
    IN  moved(RemovalPoint(t, c, t.nodes[c].fatherIndex))

\* C33: when the element moved by the compaction inside a Delete is the
\* father, brother or grandfather of the removed node, then immediately
\* after DeleteNode each of the fixup's father, brother and grandfather
\* indices is NIL or below the live count, never the vacated index, and
\* denotes the node with the same key as before the compaction; the three
\* indices are pairwise distinct, so that redirecting at most one of them
\* suffices, and the fixup that continues leaves a red-black search tree.
C33_FixupIndices ==
    /\ [](WellFormed(tree) => FixupIndices(tree))
    /\ [][(/\ last'.op = "Delete"
           /\ last'.ret
           /\ WellFormed(tree)
           /\ Descend(tree, tree.rootIndex, last'.key) \in BlackLeaves(tree)
           /\ MovedRelatives(tree, Descend(tree, tree.rootIndex, last'.key)) # {}) =>
              /\ WellFormed(tree')
              /\ KeysOf(tree') = KeysOf(tree) \ {last'.key}]_vars

\* a tree with a Black leaf whose removal moves its father and one whose
\* removal moves its grandfather
C33_Witness ==
    /\ WellFormed(tree)
    /\ tree.nodeCount >= 4
    /\ \E c \in BlackLeaves(tree) : "f" \in MovedRelatives(tree, c)
    /\ \E c \in BlackLeaves(tree) : "g" \in MovedRelatives(tree, c)

----------------------------------------------------------------------------
(* Claim C34: the growth rule *)

Smaller(a, b) == IF a < b THEN a ELSE b

\* an Insert or operator[] of a key the tree does not hold
AddsAbsent == last'.op \in {"Insert", "Subscript"} /\ last'.key \notin KeysOf(tree)

\* C34: when Insert or operator[] adds an absent key while the live count
\* equals the capacity and the capacity is below MAX_COUNT, the capacity
\* afterwards is min(2 * capacity, MAX_COUNT), every pair stored before is
\* still present with its value and the operation succeeds; when the live
\* count is below the capacity the insert leaves the capacity unchanged.
C34_Growth ==
    [][/\ (/\ AddsAbsent
           /\ tree.nodeCount = tree.size
           /\ tree.size < MaxNodeCount(tree.bitLength)) =>
              /\ last'.ret
              /\ tree'.size = Smaller(2 * tree.size, MaxNodeCount(tree.bitLength))
              /\ Pairs(tree) \subseteq Pairs(tree')
              /\ tree'.nodeCount = tree.nodeCount + 1
              /\ Search(tree', last'.key).found
       /\ (AddsAbsent /\ tree.nodeCount < tree.size) =>
              /\ last'.ret
              /\ tree'.size = tree.size
              /\ Pairs(tree) \subseteq Pairs(tree')
              /\ tree'.nodeCount = tree.nodeCount + 1]_vars

\* the ninth key has doubled a 64-bit-index tree from 8 to 16 slots
C34_Witness ==
    /\ last.op \in {"Insert", "Subscript"}
    /\ last.ret
    /\ last.key = 9
    /\ tree.bitLength = 64
    /\ tree.nodeCount = 9
    /\ tree.size = 16

----------------------------------------------------------------------------
(* Claim C35: the slot of an inserted pair *)

\* C35: an Insert of an absent key into a tree below MAX_COUNT places the
\* new pair in the slot whose index is the live count before the call and
\* moves no existing pair to another slot, also when the backing array is
\* regrown: the key and the value of every slot live before are unchanged;
\* only links, colours and rootIndex may change through the fixup.
C35_InsertSlot ==
    [][(/\ last'.op = "Insert"
        /\ last'.key \notin KeysOf(tree)
        /\ tree.nodeCount < MaxNodeCount(tree.bitLength)) =>
           /\ last'.ret
           /\ tree'.nodeCount = tree.nodeCount + 1
           /\ DOMAIN tree'.nodes = 0..tree.nodeCount
           /\ tree'.nodes[tree.nodeCount].key = last'.key
           /\ tree'.nodes[tree.nodeCount].value = last'.value
           /\ \A i \in DOMAIN tree.nodes :
                  /\ tree'.nodes[i].key = tree.nodes[i].key
                  /\ tree'.nodes[i].value = tree.nodes[i].value]_vars

\* an Insert that regrew the array from 2 to 4 slots and rotated at the root
C35_Witness ==
    /\ last.op = "Insert"
    /\ last.ret
    /\ tree.nodeCount = 3
    /\ tree.size = 4
    /\ tree.nodes[2].key = last.key
    /\ tree.rootIndex = 1
    /\ tree.nodes[0].key # 2

----------------------------------------------------------------------------
(* Claim C36: Insert of a key already present *)

\* after differs from t in the value of slot i at most
OnlyValueOf(t, after, i, value) ==
    /\ after.nodeCount = t.nodeCount
    /\ after.rootIndex = t.rootIndex
    /\ after.size = t.size
    /\ after.bitLength = t.bitLength
    /\ DOMAIN after.nodes = DOMAIN t.nodes
    /\ after.nodes[i].value = value
    /\ \A j \in DOMAIN t.nodes :
           /\ after.nodes[j].key = t.nodes[j].key
           /\ after.nodes[j].fatherIndex = t.nodes[j].fatherIndex
           /\ after.nodes[j].leftIndex = t.nodes[j].leftIndex
           /\ after.nodes[j].rightIndex = t.nodes[j].rightIndex
           /\ after.nodes[j].color = t.nodes[j].color
           /\ j # i => after.nodes[j].value = t.nodes[j].value

\* C36: Insert(k, v) with k already present changes only the value field
\* of the one slot holding k: no parent, left or right link, no colour, no
\* key, and neither rootIndex, the live count nor the capacity changes, and
\* it returns true.
C36_InsertPresent ==
    [][(last'.op = "Insert" /\ last'.key \in KeysOf(tree)) =>
           /\ last'.ret
           /\ OnlyValueOf(tree, tree', SlotOf(tree, last'.key), last'.value)]_vars

\* an Insert has replaced the value of a Red node below the root of a tree
\* holding MAX_COUNT pairs; the key is not in the last slot, where an
\* Insert adding it would have put it
C36_Witness ==
    /\ last.op = "Insert"
    /\ last.ret
    /\ tree.nodeCount = MaxNodeCount(tree.bitLength)
    /\ map[last.key] = last.value
    /\ \E i \in DOMAIN tree.nodes :
           /\ tree.nodes[i].key = last.key
           /\ tree.nodes[i].value = last.value
           /\ tree.nodes[i].color = Red
           /\ i # tree.rootIndex
           /\ i < tree.nodeCount - 1
    /\ \E j \in DOMAIN tree.nodes : tree.nodes[j].value # last.value

----------------------------------------------------------------------------
(* Claim C37: the three algorithms of ConditionalDelete *)

\* if(deleteRate<0.25): both loops of the branch, as ConditionalDelete runs
\* them; returns [tree, deleted]
SparseTier(t, c) ==
    LET secondPass(d1) == SparseByKey(d1.tree, SparseCollect(d1.tree, c, 0, <<>>), 1,
                                      d1.deleted)
    IN  secondPass(SparseDirect(t, c, 0, 0))

\* normalDelete: the walk from GetMinIndex(); returns [tree, deleted]
NormalTier(t, c) == NormalDelete(t, c, GetMinIndex(t), 0)

\* the else branch: newTree(ArraySize()), the Inserts, the move into place;
\* returns [tree, deleted]
RebuildTier(t, c) ==
    LET pre == PrePass(t, c, 0, 0, <<>>)
        rebuilt(newTree) == [tree |-> newTree,
                             deleted |-> t.nodeCount - newTree.nodeCount]
    IN  rebuilt(Rebuild(CreateSize(t.bitLength, t.size), t, pre.notToDeleteIndeices, 0,
                        t.nodeCount - pre.needToDelete))

\* the algorithm named by r = matches / live_count, for a tree that is not
\* empty
RateTier(t, c) ==
    LET matches == Cardinality(MatchingSlots(t, c))
    IN  IF 4 * matches < t.nodeCount THEN "sparse"
        ELSE IF 2 * matches < t.nodeCount THEN "normal"
        ELSE "rebuild"

TierResult(t, c, tier) ==
    CASE tier = "sparse" -> SparseTier(t, c)
      [] tier = "normal" -> NormalTier(t, c)
      [] OTHER -> RebuildTier(t, c)

\* the three algorithms, run on t, end with the same key-value map, the
\* same count and the capacity of t
TiersAgree(t, c) ==
    LET agree(s, m, h) ==
            /\ Contents(s.tree) = Contents(m.tree)
            /\ Contents(m.tree) = Contents(h.tree)
            /\ s.tree.nodeCount = m.tree.nodeCount
            /\ m.tree.nodeCount = h.tree.nodeCount
            /\ s.deleted = m.deleted
            /\ m.deleted = h.deleted
            /\ s.tree.size = t.size
            /\ m.tree.size = t.size
            /\ h.tree.size = t.size
    IN  agree(SparseTier(t, c), NormalTier(t, c), RebuildTier(t, c))

\* the call has returned what the algorithm r returns
RanTier(t, after, count, r) ==
    /\ after = r.tree
    /\ count = r.deleted
    /\ after.size = t.size

\* C37: ConditionalDelete on a tree that is not empty runs the algorithm
\* named by the rate r = matches / live_count of its pre-pass: the sparse
\* one when r < 0.25, the medium one when 0.25 <= r < 0.5, the heavy one
\* when r >= 0.5; on the same tree and predicate the three algorithms end
\* with the same key-value map and the same return value, and each leaves
\* the capacity as it was.
C37_Tiers ==
    /\ [](\A c \in DeepConditions :
              /\ tree.nodeCount # 0 =>
                     DeleteRateTier(tree, PrePass(tree, c, 0, 0, <<>>).needToDelete,
                                    TRUE) = RateTier(tree, c)
              /\ TiersAgree(tree, c))
    /\ [][last'.op = "ConditionalDelete" =>
              /\ RanTier(tree, tree', last'.count,
                         TierResult(tree, last'.cond, last'.tier))
              /\ tree.nodeCount # 0 =>
                     last'.tier \in {RateTier(tree, last'.cond), "normal"}]_vars

\* the heavy algorithm has removed half of ten pairs, and on the tree it
\* left the rate selects each of the three algorithms for some predicate
\* that matches a pair
C37_Witness ==
    /\ last.op = "ConditionalDelete"
    /\ last.tier = "rebuild"
    /\ last.count = 5
    /\ tree.nodeCount = 5
    /\ \A tier \in {"sparse", "normal", "rebuild"} :
           \E c \in DeepConditions :
               /\ RateTier(tree, c) = tier
               /\ MatchingSlots(tree, c) # {}

----------------------------------------------------------------------------
(* SpecLoops: the while loop of InsertCore, the doubleBlackFix loop of      *)
(* DeleteCore and the walk of normalDelete, one iteration per step.  tree   *)
(* is the tree as the running call has left it so far, other the loop's     *)
(* local variables together with the passes the loop is still to make       *)
(* (pending), last.tier the loop the call is in ("none" between calls), map *)
(* the reference map with the effect of the call applied when the call      *)
(* starts.                                                                  *)

LoopLabels == {"InsertCore", "doubleBlackFix", "normalDelete"}

Running == last.tier \in LoopLabels

NoLocals == [loop |-> "none"]

\* one evaluation of the loop condition of InsertCore and, when it holds,
\* one pass through the body; again: control is back at the loop condition
InsertCoreStep(t, root, current, father, grandfather) ==
    LET return(x) == [tree |-> x, again |-> FALSE, current |-> current,
                      father |-> father, grandfather |-> grandfather]
        routeCase == GetRouteCase(t, current, father, grandfather)
        \* redUncle:
        s1(x) == SetColor(x, grandfather, Red)
        s2(x) == SetColor(x, x.nodes[grandfather].leftIndex, Black)
        s3(x) == SetColor(x, x.nodes[grandfather].rightIndex, Black)
        s4(x) == LET current2 == x.nodes[x.nodes[current].fatherIndex].fatherIndex
                 IN  IF current2 = x.rootIndex
                        \/ x.nodes[current2].fatherIndex = x.rootIndex
                     THEN return(SetColor(x, x.rootIndex, Black))
                     ELSE [tree |-> x, again |-> TRUE, current |-> current2,
                           father |-> x.nodes[current2].fatherIndex,
                           grandfather |->
                               x.nodes[x.nodes[current2].fatherIndex].fatherIndex]
    IN  IF ~(t.nodes[current].color = Red /\ t.nodes[father].color = Red)
        THEN return(t)
        ELSE IF RedUncle(t, routeCase, grandfather)
             THEN s4(s3(s2(s1(t))))
             ELSE CASE routeCase = "RR" ->
                           return(InsertRotateRR(t, root, current, father, grandfather))
                    [] routeCase = "RL" ->
                           return(InsertRotateRL(t, root, current, father, grandfather))
                    [] routeCase = "LR" ->
                           return(InsertRotateLR(t, root, current, father, grandfather))
                    [] OTHER ->
                           return(InsertRotateLL(t, root, current, father, grandfather))

\* Insert and operator[] up to the call of InsertCore: enters tells whether
\* InsertCore is called, on tree with the arguments given
InsertCoreEntry(t, key, value) ==
    LET no == [enters |-> FALSE]
        d == InsertDescend(t, t.rootIndex, key, value)
        father == d.tree.nodes[d.index].fatherIndex
    IN  IF t.nodeCount = 0 THEN no
        ELSE IF d.kind # "new" THEN no
        ELSE IF d.tree.nodes[father].fatherIndex = Nil(t) THEN no
        ELSE [enters |-> TRUE, tree |-> d.tree, root |-> d.tree.rootIndex,
              current |-> d.index, father |-> father,
              grandfather |-> d.tree.nodes[father].fatherIndex]

\* one pass from the label doubleBlackFix with the red-brother case left
\* as it found the tree
DoubleBlackStepNoRotation(t, currentIndex, loc0, deleted, dIdx) ==
    LET g == t.nodes[loc0.f].fatherIndex
        isLeft == t.nodes[loc0.f].leftIndex = currentIndex
        b == IF isLeft THEN t.nodes[loc0.f].rightIndex ELSE t.nodes[loc0.f].leftIndex
        loc1 == [f |-> loc0.f, b |-> b, g |-> g]
        victim == IF isLeft THEN t.nodes[loc0.f].leftIndex ELSE t.nodes[loc0.f].rightIndex
        dIdx2 == IF ~deleted THEN ToIndexType(t.bitLength, victim) ELSE dIdx
        near == IF isLeft THEN t.nodes[b].leftIndex ELSE t.nodes[b].rightIndex
        far  == IF isLeft THEN t.nodes[b].rightIndex ELSE t.nodes[b].leftIndex
        return(x, case) == [tree |-> x, again |-> FALSE, currentIndex |-> currentIndex,
                            loc |-> loc1, deleted |-> TRUE, deleteIndex |-> dIdx2,
                            case |-> case]
        goto(x, c, loc, del, d, case) ==
            [tree |-> x, again |-> TRUE, currentIndex |-> c, loc |-> loc,
             deleted |-> del, deleteIndex |-> d, case |-> case]
        remove(x) == IF ~deleted
                     THEN DeleteNode(x, loc1.f, victim, loc1)
                     ELSE [tree |-> x, loc |-> loc1]
        propagate(x, loc) ==
            IF x.rootIndex = loc.f
            THEN return(x, "root")
            ELSE IF x.nodes[loc.f].color = Red
                 THEN return(SetColor(x, loc.f, Black), "absorbed")
                 ELSE goto(x, loc.f,
                           [f |-> x.nodes[loc.f].fatherIndex,
                            b |-> loc.b,
                            g |-> x.nodes[x.nodes[loc.f].fatherIndex].fatherIndex],
                           TRUE, dIdx2, "climb")
        blackBrother(d) ==
            IF IsRedChild(t, far)
            THEN return(IF isLeft THEN DeleteCaseRR(d.tree, d.loc)
                                  ELSE DeleteCaseLL(d.tree, d.loc), "rotation")
            ELSE IF IsRedChild(t, near)
                 THEN return(IF isLeft THEN DeleteCaseRL(d.tree, d.loc)
                                       ELSE DeleteCaseLR(d.tree, d.loc), "rotation")
                 ELSE propagate(SetColor(d.tree, d.loc.b, Red), d.loc)
    IN  IF t.nodes[b].color = Black
        THEN blackBrother(remove(t))
        ELSE goto(t, currentIndex, loc1, deleted, dIdx, "redBrother")

\* one pass from the label doubleBlackFix to a return (again FALSE) or to
\* a goto doubleBlackFix (again TRUE); case names the branch taken
DoubleBlackStep(t, currentIndex, loc0, deleted, dIdx) ==
    LET g == t.nodes[loc0.f].fatherIndex
        isLeft == t.nodes[loc0.f].leftIndex = currentIndex
        b == IF isLeft THEN t.nodes[loc0.f].rightIndex ELSE t.nodes[loc0.f].leftIndex
        loc1 == [f |-> loc0.f, b |-> b, g |-> g]
        victim == IF isLeft THEN t.nodes[loc0.f].leftIndex ELSE t.nodes[loc0.f].rightIndex
        dIdx2 == IF ~deleted THEN ToIndexType(t.bitLength, victim) ELSE dIdx
        near == IF isLeft THEN t.nodes[b].leftIndex ELSE t.nodes[b].rightIndex
        far  == IF isLeft THEN t.nodes[b].rightIndex ELSE t.nodes[b].leftIndex
        return(x, case) == [tree |-> x, again |-> FALSE, currentIndex |-> currentIndex,
                            loc |-> loc1, deleted |-> TRUE, deleteIndex |-> dIdx2,
                            case |-> case]
        goto(x, c, loc, del, d, case) ==
            [tree |-> x, again |-> TRUE, currentIndex |-> c, loc |-> loc,
             deleted |-> del, deleteIndex |-> d, case |-> case]
        \* if(!deleted){*(deleteIndex)=...; DeleteNode(...);}
        remove(x) == IF ~deleted
                     THEN DeleteNode(x, loc1.f, victim, loc1)
                     ELSE [tree |-> x, loc |-> loc1]
        \* brotherChildBothBlack: after brother->color=Red
        propagate(x, loc) ==
            IF x.rootIndex = loc.f
            THEN return(x, "root")
            ELSE IF x.nodes[loc.f].color = Red
                 THEN return(SetColor(x, loc.f, Black), "absorbed")
                 ELSE goto(x, loc.f,
                           [f |-> x.nodes[loc.f].fatherIndex,
                            b |-> loc.b,
                            g |-> x.nodes[x.nodes[loc.f].fatherIndex].fatherIndex],
                           TRUE, dIdx2, "climb")
        \* brother Black: the case is chosen on the tree before the removal
        blackBrother(d) ==
            IF IsRedChild(t, far)
            THEN return(IF isLeft THEN DeleteCaseRR(d.tree, d.loc)
                                  ELSE DeleteCaseLL(d.tree, d.loc), "rotation")
            ELSE IF IsRedChild(t, near)
                 THEN return(IF isLeft THEN DeleteCaseRL(d.tree, d.loc)
                                       ELSE DeleteCaseLR(d.tree, d.loc), "rotation")
                 ELSE propagate(SetColor(d.tree, d.loc.b, Red), d.loc)
    IN  IF t.nodes[b].color = Black
        THEN blackBrother(remove(t))
        ELSE goto(IF isLeft THEN DeleteRedBrotherRight(t, loc1)
                            ELSE DeleteRedBrotherLeft(t, loc1),
                  currentIndex, loc1, deleted, dIdx, "redBrother")

\* Delete up to the first arrival at doubleBlackFix: enters tells whether
\* the label is reached, with tree (the successor's pair already copied
\* when the key's node has two children), currentIndex and loc
DoubleBlackEntry(t, key) ==
    LET no == [enters |-> FALSE]
        current == Descend(t, t.rootIndex, key)
        n == t.nodes[current]
        \* deleteBegin:
        begin(x, c, loc) ==
            IF x.nodes[c].rightIndex = Nil(x) /\ x.nodes[c].color = Black
            THEN [enters |-> TRUE, tree |-> x, currentIndex |-> c, loc |-> loc]
            ELSE no
        \* gotoRightSmallest:
        rightSmallest == LeftMost(t, n.rightIndex)
        copied == SetKeyValue(t, current, t.nodes[rightSmallest].key,
                              t.nodes[rightSmallest].value)
    IN  IF t.nodeCount <= 1 THEN no
        ELSE IF current = Nil(t) THEN no
        ELSE IF n.leftIndex # Nil(t) /\ n.rightIndex # Nil(t)
             THEN begin(copied, rightSmallest,
                        [f |-> t.nodes[rightSmallest].fatherIndex,
                         b |-> Nil(t),
                         g |-> t.nodes[t.nodes[rightSmallest].fatherIndex].fatherIndex])
        ELSE IF n.fatherIndex # Nil(t) /\ n.leftIndex = Nil(t)
             THEN begin(t, current, [f |-> n.fatherIndex, b |-> Nil(t), g |-> Nil(t)])
        ELSE no

\* one evaluation of while(index!=MaxNodeCount) in normalDelete and, when
\* it holds, one pass through the body
NormalDeleteStep(t, c, index, deleted) ==
    LET afterDelete(r, deletedKey) ==
            [tree |-> r.tree, again |-> TRUE,
             index |-> IndexSmallestGraterThan(r.tree, deletedKey),
             deleted |-> IF r.ret THEN deleted + 1 ELSE deleted]
        successor == IF t.nodes[index].rightIndex # Nil(t)
                     THEN FollowLeft(t, t.nodes[index].rightIndex, t.nodeCount + 1)
                     ELSE ClimbFromRight(t, index, t.nodeCount + 1)
    IN  IF index # Nil(t)
        THEN IF Cond(c, t.nodes[index].key, t.nodes[index].value)
             THEN afterDelete(DeleteCore(t, t.nodes[index].key), t.nodes[index].key)
             ELSE [tree |-> t, again |-> TRUE, index |-> successor, deleted |-> deleted]
        ELSE [tree |-> t, again |-> FALSE, index |-> index, deleted |-> deleted]

\* the most iterations of one loop that a call is followed through
LoopFuel(t) == 2 * t.nodeCount + 2

\* TRUE; comparing the tree of a pass has TLC evaluate it where the pass
\* is made, so that the state holds the tree and not an expression for it
Evaluated(r) == r.tree = r.tree

\* the passes InsertCore makes from its entry, in order: each is the
\* result of InsertCoreStep on what the pass before it left
RECURSIVE InsertCoreRun(_, _, _, _, _, _)
InsertCoreRun(t, root, current, father, grandfather, fuel) ==
    LET rest(r) == IF Evaluated(r) /\ r.again /\ fuel > 1
                   THEN <<r>> \o InsertCoreRun(r.tree, root, r.current, r.father,
                                               r.grandfather, fuel - 1)
                   ELSE <<r>>
    IN  rest(InsertCoreStep(t, root, current, father, grandfather))

\* the passes from doubleBlackFix, in order
RECURSIVE DoubleBlackRun(_, _, _, _, _, _)
DoubleBlackRun(t, currentIndex, loc0, deleted, dIdx, fuel) ==
    LET rest(r) == IF Evaluated(r) /\ r.again /\ fuel > 1
                   THEN <<r>> \o DoubleBlackRun(r.tree, r.currentIndex, r.loc, r.deleted,
                                                r.deleteIndex, fuel - 1)
                   ELSE <<r>>
    IN  rest(DoubleBlackStep(t, currentIndex, loc0, deleted, dIdx))

\* the passes of the walk of normalDelete, in order
RECURSIVE NormalDeleteRun(_, _, _, _, _)
NormalDeleteRun(t, c, index, deleted, fuel) ==
    LET rest(r) == IF Evaluated(r) /\ r.again /\ fuel > 1
                   THEN <<r>> \o NormalDeleteRun(r.tree, c, r.index, r.deleted, fuel - 1)
                   ELSE <<r>>
    IN  rest(NormalDeleteStep(t, c, index, deleted))

MaxLoopKey == 22

MaxLoopRemoved == 3

\* Delete is called on trees of up to MaxKey keys and on trees that lack
\* fewer than MaxLoopRemoved of the MaxLoopKey keys
LoopReach == tree.nodeCount <= MaxKey \/ MaxLoopKey - tree.nodeCount < MaxLoopRemoved

\* ConditionalDelete is called on trees of up to MaxKey keys and on trees
\* that hold the keys 1..n for some n
WalkReach == tree.nodeCount <= MaxKey \/ DOMAIN map = 1..tree.nodeCount

\* RBTreeArray64 constructed with room for the keys of the run
InitLoops ==
    /\ tree = CreateSize(64, MaxLoopKey)
    /\ map = EmptyMap
    /\ other = NoLocals
    /\ last = NoCall
    /\ refused = FALSE

\* Insert(k, v) or tree[k] = v of the next key: the whole call when
\* InsertCore is not called, else the call up to the loop
LoopInsert ==
    LET k == Cardinality(DOMAIN map) + 1
        whole(op, r) ==
            /\ tree' = r.tree
            /\ other' = NoLocals
            /\ last' = Call(op, k, DeepValue(k), r.ret, NoCond, 0, "none")
        upToLoop(op, e) ==
            /\ tree' = e.tree
            /\ other' = [loop |-> "InsertCore", root |-> e.root, current |-> e.current,
                         father |-> e.father, grandfather |-> e.grandfather,
                         pending |-> InsertCoreRun(e.tree, e.root, e.current, e.father,
                                                   e.grandfather, LoopFuel(e.tree))]
            /\ last' = Call(op, k, DeepValue(k), TRUE, NoCond, 0, "InsertCore")
        call(op, e) == IF e.enters THEN upToLoop(op, e)
                       ELSE whole(op, Insert(tree, k, DeepValue(k)))
    IN  /\ ~Running
        /\ DOMAIN map = 1..(k - 1)
        /\ k <= MaxLoopKey
        /\ \E op \in {"Insert", "Subscript"} :
               call(op, InsertCoreEntry(tree, k, DeepValue(k)))
        /\ map' = MapPut(map, k, DeepValue(k))
        /\ UNCHANGED refused

\* the next pass of the running loop; a loop that has not returned within
\* LoopFuel passes is followed no further
InsertCoreIteration ==
    LET r == Head(other.pending)
    IN  /\ last.tier = "InsertCore"
        /\ IF r.again /\ Len(other.pending) = 1
           THEN UNCHANGED <<tree, other, last>>
           ELSE /\ tree' = r.tree
                /\ other' = IF r.again
                            THEN [other EXCEPT !.current = r.current,
                                               !.father = r.father,
                                               !.grandfather = r.grandfather,
                                               !.pending = Tail(other.pending)]
                            ELSE NoLocals
                /\ last' = IF r.again THEN last ELSE [last EXCEPT !.tier = "none"]
        /\ UNCHANGED <<map, refused>>

\* Delete(k): the whole call when doubleBlackFix is not reached, else the
\* call up to the label
LoopDelete ==
    LET whole(k, r) ==
            /\ tree' = r.tree
            /\ other' = NoLocals
            /\ last' = Call("Delete", k, 0, r.ret, NoCond, 0, "none")
        upToLoop(k, e) ==
            /\ tree' = e.tree
            /\ other' = [loop |-> "doubleBlackFix", currentIndex |-> e.currentIndex,
                         loc |-> e.loc, deleted |-> FALSE, deleteIndex |-> Nil(tree),
                         case |-> "none",
                         pending |-> DoubleBlackRun(e.tree, e.currentIndex, e.loc, FALSE,
                                                    Nil(tree), LoopFuel(e.tree))]
            /\ last' = Call("Delete", k, 0, TRUE, NoCond, 0, "doubleBlackFix")
        call(k, e) == IF e.enters THEN upToLoop(k, e) ELSE whole(k, Delete(tree, k))
    IN  /\ ~Running
        /\ LoopReach
        /\ \E k \in 1..MaxLoopKey :
               /\ call(k, DoubleBlackEntry(tree, k))
               /\ map' = MapErase(map, {k})
        /\ UNCHANGED refused

DoubleBlackIteration ==
    LET r == Head(other.pending)
    IN  /\ last.tier = "doubleBlackFix"
        /\ IF r.again /\ Len(other.pending) = 1
           THEN UNCHANGED <<tree, other, last>>
           ELSE /\ tree' = r.tree
                /\ other' = IF r.again
                            THEN [other EXCEPT !.currentIndex = r.currentIndex,
                                               !.loc = r.loc, !.deleted = r.deleted,
                                               !.deleteIndex = r.deleteIndex,
                                               !.case = r.case,
                                               !.pending = Tail(other.pending)]
                            ELSE NoLocals
                /\ last' = IF r.again THEN last ELSE [last EXCEPT !.tier = "none"]
        /\ UNCHANGED <<map, refused>>

\* ConditionalDelete(condition) taking the branch normalDelete, up to the
\* loop
LoopConditionalDelete ==
    /\ ~Running
    /\ WalkReach
    /\ \E c \in [kind : {"mod"}, d : 1..MaxLoopKey] :
           /\ other' = [loop |-> "normalDelete", index |-> GetMinIndex(tree),
                        deleted |-> 0,
                        pending |-> NormalDeleteRun(tree, c, GetMinIndex(tree), 0,
                                                    LoopFuel(tree))]
           /\ last' = Call("ConditionalDelete", 0, 0, TRUE, c, 0, "normalDelete")
           /\ map' = MapErase(map, {k \in DOMAIN map : Cond(c, k, map[k])})
    /\ UNCHANGED <<tree, refused>>

NormalDeleteIteration ==
    LET r == Head(other.pending)
    IN  /\ last.tier = "normalDelete"
        /\ IF r.again /\ Len(other.pending) = 1
           THEN UNCHANGED <<tree, other, last>>
           ELSE /\ tree' = r.tree
                /\ other' = IF r.again
                            THEN [other EXCEPT !.index = r.index,
                                               !.deleted = r.deleted,
                                               !.pending = Tail(other.pending)]
                            ELSE NoLocals
                /\ last' = IF r.again THEN last
                           ELSE [last EXCEPT !.tier = "none", !.count = r.deleted]
        /\ UNCHANGED <<map, refused>>

NextLoops ==
    \/ LoopInsert
    \/ InsertCoreIteration
    \/ LoopDelete
    \/ DoubleBlackIteration
    \/ LoopConditionalDelete
    \/ NormalDeleteIteration

\* a call that has started is scheduled until it returns
SpecLoops ==
    /\ InitLoops
    /\ [][NextLoops]_vars
    /\ WF_vars(InsertCoreIteration)
    /\ WF_vars(DoubleBlackIteration)
    /\ WF_vars(NormalDeleteIteration)

----------------------------------------------------------------------------
(* Claim C38: the loops of Insert, operator[], Delete and ConditionalDelete *)

\* the number of fatherIndex links from slot i up to the root
RECURSIVE DepthOf(_, _, _)
DepthOf(t, i, fuel) ==
    IF i = t.rootIndex \/ fuel = 0 THEN 0
    ELSE 1 + DepthOf(t, t.nodes[i].fatherIndex, fuel - 1)

Depth(t, i) == DepthOf(t, i, t.nodeCount + 1)

Links(t) == [i \in DOMAIN t.nodes |->
                <<t.nodes[i].fatherIndex, t.nodes[i].leftIndex, t.nodes[i].rightIndex>>]

\* between calls the tree is well formed and holds the pairs of the map
Returned == ~Running => WellFormed(tree) /\ Pairs(tree) = MapPairs(map)

\* an iteration of InsertCore that goes round again has moved current two
\* links up without touching a link; one that rotates returns
InsertLoopClimbs ==
    last.tier = "InsertCore" =>
        /\ last'.tier = "InsertCore" =>
               /\ Links(tree') = Links(tree)
               /\ Depth(tree', other'.current) = Depth(tree, other.current) - 2
               /\ Depth(tree', other'.current) >= 2
        /\ Links(tree') # Links(tree) => last'.tier = "none"

\* an iteration of doubleBlackFix returns in the three ways named, or goes
\* round again one link nearer the root, or has met a Red brother
DeleteLoopClimbs ==
    last.tier = "doubleBlackFix" =>
        LET taken(r) ==
                /\ ~r.again => r.case \in {"absorbed", "rotation", "root"}
                /\ r.again => r.case \in {"climb", "redBrother"}
                /\ r.case = "climb" =>
                       /\ Depth(tree', other'.currentIndex)
                              < Depth(tree, other.currentIndex)
                       /\ other'.currentIndex # tree'.rootIndex
                /\ r.case = "absorbed" => tree.nodes[other.loc.f].color = Red
                /\ r.again = (last'.tier = "doubleBlackFix")
        IN  taken(DoubleBlackStep(tree, other.currentIndex, other.loc, other.deleted,
                                  other.deleteIndex))

\* the iteration after the Red-brother case finds a Black brother and
\* returns
RedBrotherOnce ==
    (last.tier = "doubleBlackFix" /\ other.case = "redBrother") =>
        LET next(r) == ~r.again /\ r.case \in {"absorbed", "rotation"}
        IN  next(DoubleBlackStep(tree, other.currentIndex, other.loc, other.deleted,
                                 other.deleteIndex))

\* the walk of normalDelete goes from a key to a greater key, and returns
\* exactly when its index is NIL
WalkAscends ==
    last.tier = "normalDelete" =>
        /\ (last'.tier = "none") = (other.index = Nil(tree))
        /\ last'.tier = "normalDelete" =>
               /\ other.index \in DOMAIN tree.nodes
               /\ other'.index # Nil(tree') =>
                      /\ other'.index \in DOMAIN tree'.nodes
                      /\ tree'.nodes[other'.index].key > tree.nodes[other.index].key

\* the pass a running loop makes next is the one its body makes on the
\* tree and the local variables as they are
NextPass ==
    Running =>
        Head(other.pending) =
            CASE last.tier = "InsertCore" ->
                     InsertCoreStep(tree, other.root, other.current, other.father,
                                    other.grandfather)
              [] last.tier = "doubleBlackFix" ->
                     DoubleBlackStep(tree, other.currentIndex, other.loc, other.deleted,
                                     other.deleteIndex)
              [] OTHER -> NormalDeleteStep(tree, last.cond, other.index, other.deleted)

\* C38: every Insert, Delete, operator[] and ConditionalDelete call on a
\* reachable tree returns: the fixup loop of Insert moves strictly toward
\* the root and stops at a rotation or at the root; the double-black loop
\* of Delete ends when the double-black is absorbed by a Red ancestor,
\* resolved by a rotation, or at the root, and its Red-brother case is
\* followed by a Black-brother case; the successor walk of the medium
\* algorithm of ConditionalDelete visits strictly increasing keys and ends
\* at NIL.
C38_Terminates ==
    /\ Running ~> ~Running
    /\ [](Returned /\ NextPass /\ RedBrotherOnce)
    /\ [][InsertLoopClimbs /\ DeleteLoopClimbs /\ WalkAscends]_vars

\* the double-black has climbed from the removed leaf and has then met a
\* Red brother, which the loop has rotated
C38_Witness ==
    /\ last.tier = "doubleBlackFix"
    /\ other.case = "redBrother"
    /\ other.deleted

----------------------------------------------------------------------------
(* Claim C39: advance and retreat of the ordered cursor undo each other *)

LiveCursors(t) == {At(i) : i \in DOMAIN t.nodes}

\* ++ then -- from a live node or before-begin, and -- then ++ from a live
\* node or after-end, end at a cursor that operator== equates with the one
\* they started from
RoundTrips(header, t) ==
    /\ \A it \in LiveCursors(t) \cup {BeforeBegin(t)} :
           OrderedEqual(header, OrderedDecrement(t, OrderedIncrement(t, it)), header, it)
    /\ \A it \in LiveCursors(t) \cup {OrderedEnd(t)} :
           OrderedEqual(header, OrderedIncrement(t, OrderedDecrement(t, it)), header, it)

\* C39: on a tree that is not changed in between, advance followed by
\* retreat of an ordered cursor at a live node or at before-begin yields a
\* cursor equal (operator==) to the original, and retreat followed by
\* advance of a cursor at a live node or at after-end yields a cursor
\* equal to the original.
C39_AdvanceRetreat == RoundTrips("tree", tree) /\ RoundTrips("other", other)

====
